---- MODULE Spec2Model ----
(***************************************************************************)
(* Model of src/dunder_check.py: the BuiltinTypeInspector class, its       *)
(* interactive menu loop and main().                                       *)
(*                                                                         *)
(* Text (type names, method names, lines read from standard input) is a    *)
(* sequence of one-character strings, so that str.strip, str.startswith,   *)
(* str.endswith and the `in` substring test are computed, not assumed.     *)
(* Python's None, a type handle and the end of standard input are          *)
(* one-element sequences whose element is longer than one character, so    *)
(* they are distinct from every text.                                      *)
(***************************************************************************)
EXTENDS Integers, Sequences, FiniteSets, TLC

VARIABLES
    pc,                 \* "start" | "menu" | "done" | "EOFError" | "Exception"
    choice_line,        \* the line the last step read at the menu prompt
    builtin_types,      \* self.builtin_types : type name -> type handle
    current_type,       \* self.current_type
    current_type_name,  \* self.current_type_name
    out,                \* what the last step printed, as a sequence of events
    load_call,          \* the load_type call made by the last step, if any
    type_obj,           \* a type object passed to a method directly
    categories,         \* result of categorize_methods(type_obj)
    result              \* result of a signature / doc / inspect_method call

vars == <<pc, choice_line, builtin_types, current_type, current_type_name, out, load_call,
          type_obj, categories, result>>

mainVars == <<pc, choice_line, builtin_types, current_type, current_type_name, out, load_call>>
apiVars == <<type_obj, categories, result>>

----------------------------------------------------------------------------
(* Values that are not text *)

None == <<"None">>
EOF == <<"EOFError">>
Raise == <<"raise">>

(* Text literals used by the source *)

t_str == <<"s","t","r">>
t_int == <<"i","n","t">>
t_float == <<"f","l","o","a","t">>
t_complex == <<"c","o","m","p","l","e","x">>
t_list == <<"l","i","s","t">>
t_tuple == <<"t","u","p","l","e">>
t_dict == <<"d","i","c","t">>
t_set == <<"s","e","t">>
t_frozenset == <<"f","r","o","z","e","n","s","e","t">>
t_bool == <<"b","o","o","l">>
t_bytes == <<"b","y","t","e","s">>
t_bytearray == <<"b","y","t","e","a","r","r","a","y">>
t_memoryview == <<"m","e","m","o","r","y","v","i","e","w">>
t_range == <<"r","a","n","g","e">>
t_slice == <<"s","l","i","c","e">>
t_type == <<"t","y","p","e">>
t_object == <<"o","b","j","e","c","t">>

----------------------------------------------------------------------------
(* str operations of the host language *)

(* str.isspace: the characters str.strip() removes.  After the five with an *)
(* escape come U+000B, U+001C..U+001F, U+0085, U+00A0 and U+1680, written   *)
(* as themselves.  The remaining Unicode spaces (U+2000..U+200A, U+2028,    *)
(* U+2029, U+202F, U+205F, U+3000) cannot occur in a string of this         *)
(* language, so no text of the model contains them.                         *)
IsSpace(c) ==
    c \in {" ", "\t", "\n", "\r", "\f",
           "", "", "", "", "", "", " ", " "}

RECURSIVE lstrip(_)
lstrip(s) == IF s # <<>> /\ IsSpace(Head(s)) THEN lstrip(Tail(s)) ELSE s

RECURSIVE rstrip(_)
rstrip(s) ==
    IF s # <<>> /\ IsSpace(s[Len(s)]) THEN rstrip(SubSeq(s, 1, Len(s) - 1)) ELSE s

strip(s) == rstrip(lstrip(s))

startswith(s, p) == Len(p) <= Len(s) /\ SubSeq(s, 1, Len(p)) = p

endswith(s, p) == Len(p) <= Len(s) /\ SubSeq(s, Len(s) - Len(p) + 1, Len(s)) = p

contains(s, p) ==
    \E i \in 0..(Len(s) - Len(p)) : SubSeq(s, i + 1, i + Len(p)) = p

(* str.lower.  Characters are those a string of this language can hold: the *)
(* code points below U+0100 and those of the basic plane whose low byte is  *)
(* at least 0x80.  A lower-case letter outside that set is written as its   *)
(* code point, "U+0253".                                                    *)

(* A-Z *)
ascii_upper ==
    <<"A","B","C","D","E","F","G","H","I","J","K","L","M","N","O","P","Q","R",
      "S","T","U","V","W","X","Y","Z">>

ascii_lower ==
    <<"a","b","c","d","e","f","g","h","i","j","k","l","m","n","o","p","q","r",
      "s","t","u","v","w","x","y","z">>

(* The other characters c with c.lower() != c, and c.lower() for each *)
other_upper ==
    <<"À", "Á", "Â", "Ã", "Ä", "Å", "Æ", "Ç", "È", "É", "Ê", "Ë",
      "Ì", "Í", "Î", "Ï", "Ð", "Ñ", "Ò", "Ó", "Ô", "Õ", "Ö", "Ø",
      "Ù", "Ú", "Û", "Ü", "Ý", "Þ", "Ɓ", "Ƃ", "Ƅ", "Ɔ", "Ƈ", "Ɖ",
      "Ɗ", "Ƌ", "Ǝ", "Ə", "Ɛ", "Ƒ", "Ɠ", "Ɣ", "Ɩ", "Ɨ", "Ƙ", "Ɯ",
      "Ɲ", "Ɵ", "Ơ", "Ƣ", "Ƥ", "Ʀ", "Ƨ", "Ʃ", "Ƭ", "Ʈ", "Ư", "Ʊ",
      "Ʋ", "Ƴ", "Ƶ", "Ʒ", "Ƹ", "Ƽ", "Ǆ", "ǅ", "Ǉ", "ǈ", "Ǌ", "ǋ",
      "Ǎ", "Ǐ", "Ǒ", "Ǔ", "Ǖ", "Ǘ", "Ǚ", "Ǜ", "Ǟ", "Ǡ", "Ǣ", "Ǥ",
      "Ǧ", "Ǩ", "Ǫ", "Ǭ", "Ǯ", "Ǳ", "ǲ", "Ǵ", "Ƕ", "Ƿ", "Ǹ", "Ǻ",
      "Ǽ", "Ǿ", "Ά", "Έ", "Ή", "Ί", "Ό", "Ύ", "Ώ", "Α", "Β", "Γ",
      "Δ", "Ε", "Ζ", "Η", "Θ", "Ι", "Κ", "Λ", "Μ", "Ν", "Ξ", "Ο",
      "Π", "Ρ", "Σ", "Τ", "Υ", "Φ", "Χ", "Ψ", "Ω", "Ϊ", "Ϋ", "Ϗ",
      "Ϙ", "Ϛ", "Ϝ", "Ϟ", "Ϡ", "Ϣ", "Ϥ", "Ϧ", "Ϩ", "Ϫ", "Ϭ", "Ϯ",
      "ϴ", "Ϸ", "Ϲ", "Ϻ", "Ͻ", "Ͼ", "Ͽ", "Ҁ", "Ҋ", "Ҍ", "Ҏ", "Ґ",
      "Ғ", "Ҕ", "Җ", "Ҙ", "Қ", "Ҝ", "Ҟ", "Ҡ", "Ң", "Ҥ", "Ҧ", "Ҩ",
      "Ҫ", "Ҭ", "Ү", "Ұ", "Ҳ", "Ҵ", "Ҷ", "Ҹ", "Һ", "Ҽ", "Ҿ", "Ӏ",
      "Ӂ", "Ӄ", "Ӆ", "Ӈ", "Ӊ", "Ӌ", "Ӎ", "Ӑ", "Ӓ", "Ӕ", "Ӗ", "Ә",
      "Ӛ", "Ӝ", "Ӟ", "Ӡ", "Ӣ", "Ӥ", "Ӧ", "Ө", "Ӫ", "Ӭ", "Ӯ", "Ӱ",
      "Ӳ", "Ӵ", "Ӷ", "Ӹ", "Ӻ", "Ӽ", "Ӿ", "Ⴀ", "Ⴁ", "Ⴂ", "Ⴃ", "Ⴄ",
      "Ⴅ", "Ⴆ", "Ⴇ", "Ⴈ", "Ⴉ", "Ⴊ", "Ⴋ", "Ⴌ", "Ⴍ", "Ⴎ", "Ⴏ", "Ⴐ",
      "Ⴑ", "Ⴒ", "Ⴓ", "Ⴔ", "Ⴕ", "Ⴖ", "Ⴗ", "Ⴘ", "Ⴙ", "Ⴚ", "Ⴛ", "Ⴜ",
      "Ⴝ", "Ⴞ", "Ⴟ", "Ⴠ", "Ⴡ", "Ⴢ", "Ⴣ", "Ⴤ", "Ⴥ", "Ⴧ", "Ⴭ", "Ꭰ",
      "Ꭱ", "Ꭲ", "Ꭳ", "Ꭴ", "Ꭵ", "Ꭶ", "Ꭷ", "Ꭸ", "Ꭹ", "Ꭺ", "Ꭻ", "Ꭼ",
      "Ꭽ", "Ꭾ", "Ꭿ", "Ꮀ", "Ꮁ", "Ꮂ", "Ꮃ", "Ꮄ", "Ꮅ", "Ꮆ", "Ꮇ", "Ꮈ",
      "Ꮉ", "Ꮊ", "Ꮋ", "Ꮌ", "Ꮍ", "Ꮎ", "Ꮏ", "Ꮐ", "Ꮑ", "Ꮒ", "Ꮓ", "Ꮔ",
      "Ꮕ", "Ꮖ", "Ꮗ", "Ꮘ", "Ꮙ", "Ꮚ", "Ꮛ", "Ꮜ", "Ꮝ", "Ꮞ", "Ꮟ", "Ꮠ",
      "Ꮡ", "Ꮢ", "Ꮣ", "Ꮤ", "Ꮥ", "Ꮦ", "Ꮧ", "Ꮨ", "Ꮩ", "Ꮪ", "Ꮫ", "Ꮬ",
      "Ꮭ", "Ꮮ", "Ꮯ", "Ꮰ", "Ꮱ", "Ꮲ", "Ꮳ", "Ꮴ", "Ꮵ", "Ꮶ", "Ꮷ", "Ꮸ",
      "Ꮹ", "Ꮺ", "Ꮻ", "Ꮼ", "Ꮽ", "Ꮾ", "Ꮿ", "Ᏸ", "Ᏹ", "Ᏺ", "Ᏻ", "Ᏼ",
      "Ᏽ", "Ა", "Ბ", "Გ", "Დ", "Ე", "Ვ", "Ზ", "Თ", "Ი", "Კ", "Ლ",
      "Მ", "Ნ", "Ო", "Პ", "Ჟ", "Რ", "Ს", "Ტ", "Უ", "Ფ", "Ქ", "Ღ",
      "Ყ", "Შ", "Ჩ", "Ც", "Ძ", "Წ", "Ჭ", "Ხ", "Ჯ", "Ჰ", "Ჱ", "Ჲ",
      "Ჳ", "Ჴ", "Ჵ", "Ჶ", "Ჷ", "Ჸ", "Ჹ", "Ჺ", "Ჽ", "Ჾ", "Ჿ", "Ẁ",
      "Ẃ", "Ẅ", "Ẇ", "Ẉ", "Ẋ", "Ẍ", "Ẏ", "Ẑ", "Ẓ", "Ẕ", "ẞ", "Ạ",
      "Ả", "Ấ", "Ầ", "Ẩ", "Ẫ", "Ậ", "Ắ", "Ằ", "Ẳ", "Ẵ", "Ặ", "Ẹ",
      "Ẻ", "Ẽ", "Ế", "Ề", "Ể", "Ễ", "Ệ", "Ỉ", "Ị", "Ọ", "Ỏ", "Ố",
      "Ồ", "Ổ", "Ỗ", "Ộ", "Ớ", "Ờ", "Ở", "Ỡ", "Ợ", "Ụ", "Ủ", "Ứ",
      "Ừ", "Ử", "Ữ", "Ự", "Ỳ", "Ỵ", "Ỷ", "Ỹ", "Ỻ", "Ỽ", "Ỿ", "ᾈ",
      "ᾉ", "ᾊ", "ᾋ", "ᾌ", "ᾍ", "ᾎ", "ᾏ", "ᾘ", "ᾙ", "ᾚ", "ᾛ", "ᾜ",
      "ᾝ", "ᾞ", "ᾟ", "ᾨ", "ᾩ", "ᾪ", "ᾫ", "ᾬ", "ᾭ", "ᾮ", "ᾯ", "Ᾰ",
      "Ᾱ", "Ὰ", "Ά", "ᾼ", "Ὲ", "Έ", "Ὴ", "Ή", "ῌ", "Ῐ", "Ῑ", "Ὶ",
      "Ί", "Ῠ", "Ῡ", "Ὺ", "Ύ", "Ῥ", "Ὸ", "Ό", "Ὼ", "Ώ", "ῼ", "Ↄ",
      "Ⓐ", "Ⓑ", "Ⓒ", "Ⓓ", "Ⓔ", "Ⓕ", "Ⓖ", "Ⓗ", "Ⓘ", "Ⓙ", "Ⓚ", "Ⓛ",
      "Ⓜ", "Ⓝ", "Ⓞ", "Ⓟ", "Ⓠ", "Ⓡ", "Ⓢ", "Ⓣ", "Ⓤ", "Ⓥ", "Ⓦ", "Ⓧ",
      "Ⓨ", "Ⓩ", "Ⲁ", "Ⲃ", "Ⲅ", "Ⲇ", "Ⲉ", "Ⲋ", "Ⲍ", "Ⲏ", "Ⲑ", "Ⲓ",
      "Ⲕ", "Ⲗ", "Ⲙ", "Ⲛ", "Ⲝ", "Ⲟ", "Ⲡ", "Ⲣ", "Ⲥ", "Ⲧ", "Ⲩ", "Ⲫ",
      "Ⲭ", "Ⲯ", "Ⲱ", "Ⲳ", "Ⲵ", "Ⲷ", "Ⲹ", "Ⲻ", "Ⲽ", "Ⲿ", "Ⳁ", "Ⳃ",
      "Ⳅ", "Ⳇ", "Ⳉ", "Ⳋ", "Ⳍ", "Ⳏ", "Ⳑ", "Ⳓ", "Ⳕ", "Ⳗ", "Ⳙ", "Ⳛ",
      "Ⳝ", "Ⳟ", "Ⳡ", "Ⳣ", "Ⳬ", "Ⳮ", "Ⳳ", "Ꚁ", "Ꚃ", "Ꚅ", "Ꚇ", "Ꚉ",
      "Ꚋ", "Ꚍ", "Ꚏ", "Ꚑ", "Ꚓ", "Ꚕ", "Ꚗ", "Ꚙ", "Ꚛ", "Ꞁ", "Ꞃ", "Ꞅ",
      "Ꞇ", "Ꞌ", "Ɥ", "Ꞑ", "Ꞓ", "Ꞗ", "Ꞙ", "Ꞛ", "Ꞝ", "Ꞟ", "Ꞡ", "Ꞣ",
      "Ꞥ", "Ꞧ", "Ꞩ", "Ɦ", "Ɜ", "Ɡ", "Ɬ", "Ɪ", "Ʞ", "Ʇ", "Ʝ", "Ꭓ",
      "Ꞵ", "Ꞷ", "Ꞹ", "Ꞻ", "Ꞽ", "Ꞿ", "Ꟁ", "Ꟃ", "Ꞔ", "Ʂ", "Ᶎ", "Ꟈ",
      "Ꟊ", "Ꟑ", "Ꟗ", "Ꟙ", "Ꟶ">>

other_lower ==
    <<"à", "á", "â", "ã", "ä", "å", "æ", "ç",
      "è", "é", "ê", "ë", "ì", "í", "î", "ï",
      "ð", "ñ", "ò", "ó", "ô", "õ", "ö", "ø",
      "ù", "ú", "û", "ü", "ý", "þ", "U+0253", "ƃ",
      "ƅ", "U+0254", "ƈ", "U+0256", "U+0257", "ƌ", "ǝ", "U+0259",
      "U+025B", "ƒ", "U+0260", "U+0263", "U+0269", "U+0268", "ƙ", "U+026F",
      "U+0272", "U+0275", "ơ", "ƣ", "ƥ", "ʀ", "ƨ", "ʃ",
      "ƭ", "ʈ", "ư", "ʊ", "ʋ", "ƴ", "ƶ", "ʒ",
      "ƹ", "ƽ", "ǆ", "ǆ", "ǉ", "ǉ", "ǌ", "ǌ",
      "ǎ", "ǐ", "ǒ", "ǔ", "ǖ", "ǘ", "ǚ", "ǜ",
      "ǟ", "ǡ", "ǣ", "ǥ", "ǧ", "ǩ", "ǫ", "ǭ",
      "ǯ", "ǳ", "ǳ", "ǵ", "ƕ", "ƿ", "ǹ", "ǻ",
      "ǽ", "ǿ", "ά", "έ", "ή", "ί", "ό", "ύ",
      "ώ", "α", "β", "γ", "δ", "ε", "ζ", "η",
      "θ", "ι", "κ", "λ", "μ", "ν", "ξ", "ο",
      "π", "ρ", "σ", "τ", "υ", "φ", "χ", "ψ",
      "ω", "ϊ", "ϋ", "ϗ", "ϙ", "ϛ", "ϝ", "ϟ",
      "ϡ", "ϣ", "ϥ", "ϧ", "ϩ", "ϫ", "ϭ", "ϯ",
      "θ", "ϸ", "ϲ", "ϻ", "U+037B", "U+037C", "U+037D", "ҁ",
      "ҋ", "ҍ", "ҏ", "ґ", "ғ", "ҕ", "җ", "ҙ",
      "қ", "ҝ", "ҟ", "ҡ", "ң", "ҥ", "ҧ", "ҩ",
      "ҫ", "ҭ", "ү", "ұ", "ҳ", "ҵ", "ҷ", "ҹ",
      "һ", "ҽ", "ҿ", "ӏ", "ӂ", "ӄ", "ӆ", "ӈ",
      "ӊ", "ӌ", "ӎ", "ӑ", "ӓ", "ӕ", "ӗ", "ә",
      "ӛ", "ӝ", "ӟ", "ӡ", "ӣ", "ӥ", "ӧ", "ө",
      "ӫ", "ӭ", "ӯ", "ӱ", "ӳ", "ӵ", "ӷ", "ӹ",
      "ӻ", "ӽ", "ӿ", "U+2D00", "U+2D01", "U+2D02", "U+2D03", "U+2D04",
      "U+2D05", "U+2D06", "U+2D07", "U+2D08", "U+2D09", "U+2D0A", "U+2D0B", "U+2D0C",
      "U+2D0D", "U+2D0E", "U+2D0F", "U+2D10", "U+2D11", "U+2D12", "U+2D13", "U+2D14",
      "U+2D15", "U+2D16", "U+2D17", "U+2D18", "U+2D19", "U+2D1A", "U+2D1B", "U+2D1C",
      "U+2D1D", "U+2D1E", "U+2D1F", "U+2D20", "U+2D21", "U+2D22", "U+2D23", "U+2D24",
      "U+2D25", "U+2D27", "U+2D2D", "U+AB70", "U+AB71", "U+AB72", "U+AB73", "U+AB74",
      "U+AB75", "U+AB76", "U+AB77", "U+AB78", "U+AB79", "U+AB7A", "U+AB7B", "U+AB7C",
      "U+AB7D", "U+AB7E", "U+AB7F", "ꮀ", "ꮁ", "ꮂ", "ꮃ", "ꮄ",
      "ꮅ", "ꮆ", "ꮇ", "ꮈ", "ꮉ", "ꮊ", "ꮋ", "ꮌ",
      "ꮍ", "ꮎ", "ꮏ", "ꮐ", "ꮑ", "ꮒ", "ꮓ", "ꮔ",
      "ꮕ", "ꮖ", "ꮗ", "ꮘ", "ꮙ", "ꮚ", "ꮛ", "ꮜ",
      "ꮝ", "ꮞ", "ꮟ", "ꮠ", "ꮡ", "ꮢ", "ꮣ", "ꮤ",
      "ꮥ", "ꮦ", "ꮧ", "ꮨ", "ꮩ", "ꮪ", "ꮫ", "ꮬ",
      "ꮭ", "ꮮ", "ꮯ", "ꮰ", "ꮱ", "ꮲ", "ꮳ", "ꮴ",
      "ꮵ", "ꮶ", "ꮷ", "ꮸ", "ꮹ", "ꮺ", "ꮻ", "ꮼ",
      "ꮽ", "ꮾ", "ꮿ", "ᏸ", "ᏹ", "ᏺ", "ᏻ", "ᏼ",
      "ᏽ", "ა", "ბ", "გ", "დ", "ე", "ვ", "ზ",
      "თ", "ი", "კ", "ლ", "მ", "ნ", "ო", "პ",
      "ჟ", "რ", "ს", "ტ", "უ", "ფ", "ქ", "ღ",
      "ყ", "შ", "ჩ", "ც", "ძ", "წ", "ჭ", "ხ",
      "ჯ", "ჰ", "ჱ", "ჲ", "ჳ", "ჴ", "ჵ", "ჶ",
      "ჷ", "ჸ", "ჹ", "ჺ", "ჽ", "ჾ", "ჿ", "ẁ",
      "ẃ", "ẅ", "ẇ", "ẉ", "ẋ", "ẍ", "ẏ", "ẑ",
      "ẓ", "ẕ", "ß", "ạ", "ả", "ấ", "ầ", "ẩ",
      "ẫ", "ậ", "ắ", "ằ", "ẳ", "ẵ", "ặ", "ẹ",
      "ẻ", "ẽ", "ế", "ề", "ể", "ễ", "ệ", "ỉ",
      "ị", "ọ", "ỏ", "ố", "ồ", "ổ", "ỗ", "ộ",
      "ớ", "ờ", "ở", "ỡ", "ợ", "ụ", "ủ", "ứ",
      "ừ", "ử", "ữ", "ự", "ỳ", "ỵ", "ỷ", "ỹ",
      "ỻ", "ỽ", "ỿ", "ᾀ", "ᾁ", "ᾂ", "ᾃ", "ᾄ",
      "ᾅ", "ᾆ", "ᾇ", "ᾐ", "ᾑ", "ᾒ", "ᾓ", "ᾔ",
      "ᾕ", "ᾖ", "ᾗ", "ᾠ", "ᾡ", "ᾢ", "ᾣ", "ᾤ",
      "ᾥ", "ᾦ", "ᾧ", "ᾰ", "ᾱ", "U+1F70", "U+1F71", "ᾳ",
      "U+1F72", "U+1F73", "U+1F74", "U+1F75", "ῃ", "ῐ", "ῑ", "U+1F76",
      "U+1F77", "ῠ", "ῡ", "U+1F7A", "U+1F7B", "ῥ", "U+1F78", "U+1F79",
      "U+1F7C", "U+1F7D", "ῳ", "ↄ", "ⓐ", "ⓑ", "ⓒ", "ⓓ",
      "ⓔ", "ⓕ", "ⓖ", "ⓗ", "ⓘ", "ⓙ", "ⓚ", "ⓛ",
      "ⓜ", "ⓝ", "ⓞ", "ⓟ", "ⓠ", "ⓡ", "ⓢ", "ⓣ",
      "ⓤ", "ⓥ", "ⓦ", "ⓧ", "ⓨ", "ⓩ", "ⲁ", "ⲃ",
      "ⲅ", "ⲇ", "ⲉ", "ⲋ", "ⲍ", "ⲏ", "ⲑ", "ⲓ",
      "ⲕ", "ⲗ", "ⲙ", "ⲛ", "ⲝ", "ⲟ", "ⲡ", "ⲣ",
      "ⲥ", "ⲧ", "ⲩ", "ⲫ", "ⲭ", "ⲯ", "ⲱ", "ⲳ",
      "ⲵ", "ⲷ", "ⲹ", "ⲻ", "ⲽ", "ⲿ", "ⳁ", "ⳃ",
      "ⳅ", "ⳇ", "ⳉ", "ⳋ", "ⳍ", "ⳏ", "ⳑ", "ⳓ",
      "ⳕ", "ⳗ", "ⳙ", "ⳛ", "ⳝ", "ⳟ", "ⳡ", "ⳣ",
      "ⳬ", "ⳮ", "ⳳ", "ꚁ", "ꚃ", "ꚅ", "ꚇ", "ꚉ",
      "ꚋ", "ꚍ", "ꚏ", "ꚑ", "ꚓ", "ꚕ", "ꚗ", "ꚙ",
      "ꚛ", "ꞁ", "ꞃ", "ꞅ", "ꞇ", "ꞌ", "U+0265", "ꞑ",
      "ꞓ", "ꞗ", "ꞙ", "ꞛ", "ꞝ", "ꞟ", "ꞡ", "ꞣ",
      "ꞥ", "ꞧ", "ꞩ", "U+0266", "U+025C", "U+0261", "U+026C", "U+026A",
      "ʞ", "ʇ", "ʝ", "U+AB53", "ꞵ", "ꞷ", "ꞹ", "ꞻ",
      "ꞽ", "ꞿ", "ꟁ", "ꟃ", "ꞔ", "ʂ", "ᶎ", "ꟈ",
      "ꟊ", "ꟑ", "ꟗ", "ꟙ", "ꟶ">>

upper_chars == ascii_upper \o other_upper
lower_chars == ascii_lower \o other_lower

lower_table ==
    [c \in {upper_chars[i] : i \in DOMAIN upper_chars} |->
        lower_chars[CHOOSE i \in DOMAIN upper_chars : upper_chars[i] = c]]

LowerOf(c) == IF c \in DOMAIN lower_table THEN lower_table[c] ELSE c

(* Case-ignorable characters, skipped on both sides of a capital sigma.     *)
(* The grave accent is one too, and no string of this language holds it.   *)
case_ignorable_chars ==
    {"'", ".", ":", "^", "¨", "­", "¯", "´", "·", "¸", "ʰ",
     "ʱ", "ʲ", "ʳ", "ʴ", "ʵ", "ʶ", "ʷ", "ʸ", "ʹ", "ʺ", "ʻ", "ʼ",
     "ʽ", "ʾ", "ʿ", "ˀ", "ˁ", "˂", "˃", "˄", "˅", "ˆ", "ˇ", "ˈ",
     "ˉ", "ˊ", "ˋ", "ˌ", "ˍ", "ˎ", "ˏ", "ː", "ˑ", "˒", "˓", "˔",
     "˕", "˖", "˗", "˘", "˙", "˚", "˛", "˜", "˝", "˞", "˟", "ˠ",
     "ˡ", "ˢ", "ˣ", "ˤ", "˥", "˦", "˧", "˨", "˩", "˪", "˫", "ˬ",
     "˭", "ˮ", "˯", "˰", "˱", "˲", "˳", "˴", "˵", "˶", "˷", "˸",
     "˹", "˺", "˻", "˼", "˽", "˾", "˿", "΄", "΅", "·", "҃", "҄",
     "҅", "҆", "҇", "҈", "҉", "֑", "֒", "֓", "֔", "֕", "֖", "֗",
     "֘", "֙", "֚", "֛", "֜", "֝", "֞", "֟", "֠", "֡", "֢", "֣",
     "֤", "֥", "֦", "֧", "֨", "֩", "֪", "֫", "֬", "֭", "֮", "֯",
     "ְ", "ֱ", "ֲ", "ֳ", "ִ", "ֵ", "ֶ", "ַ", "ָ", "ֹ", "ֺ", "ֻ",
     "ּ", "ֽ", "ֿ", "ׁ", "ׂ", "ׄ", "ׅ", "ׇ", "״", "ۖ", "ۗ", "ۘ",
     "ۙ", "ۚ", "ۛ", "ۜ", "۝", "۟", "۠", "ۡ", "ۢ", "ۣ", "ۤ", "ۥ",
     "ۦ", "ۧ", "ۨ", "۪", "۫", "۬", "ۭ", "ަ", "ާ", "ި", "ީ", "ު",
     "ޫ", "ެ", "ޭ", "ޮ", "ޯ", "ް", "߫", "߬", "߭", "߮", "߯", "߰",
     "߱", "߲", "߳", "ߴ", "ߵ", "ߺ", "߽", "࢈", "࢐", "࢑", "࢘", "࢙",
     "࢚", "࢛", "࢜", "࢝", "࢞", "࢟", "ࣉ", "࣊", "࣋", "࣌", "࣍", "࣎",
     "࣏", "࣐", "࣑", "࣒", "࣓", "ࣔ", "ࣕ", "ࣖ", "ࣗ", "ࣘ", "ࣙ", "ࣚ",
     "ࣛ", "ࣜ", "ࣝ", "ࣞ", "ࣟ", "࣠", "࣡", "࣢", "ࣣ", "ࣤ", "ࣥ", "ࣦ",
     "ࣧ", "ࣨ", "ࣩ", "࣪", "࣫", "࣬", "࣭", "࣮", "࣯", "ࣰ", "ࣱ", "ࣲ",
     "ࣳ", "ࣴ", "ࣵ", "ࣶ", "ࣷ", "ࣸ", "ࣹ", "ࣺ", "ࣻ", "ࣼ", "ࣽ", "ࣾ",
     "ࣿ", "ঁ", "়", "ু", "ূ", "ৃ", "ৄ", "্", "ৢ", "ৣ", "৾", "ઁ",
     "ં", "઼", "ુ", "ૂ", "ૃ", "ૄ", "ૅ", "ે", "ૈ", "્", "ૢ", "ૣ",
     "ૺ", "ૻ", "ૼ", "૽", "૾", "૿", "ஂ", "ீ", "்", "ಁ", "಼", "ಿ",
     "ೆ", "ೌ", "್", "ೢ", "ೣ", "ඁ", "්", "ි", "ී", "ු", "ූ", "ັ",
     "ິ", "ີ", "ຶ", "ື", "ຸ", "ູ", "຺", "ົ", "ຼ", "ໆ", "່", "້",
     "໊", "໋", "໌", "ໍ", "ྀ", "ཱྀ", "ྂ", "ྃ", "྄", "྆", "྇", "ྍ",
     "ྎ", "ྏ", "ྐ", "ྑ", "ྒ", "ྒྷ", "ྔ", "ྕ", "ྖ", "ྗ", "ྙ", "ྚ",
     "ྛ", "ྜ", "ྜྷ", "ྞ", "ྟ", "ྠ", "ྡ", "ྡྷ", "ྣ", "ྤ", "ྥ", "ྦ",
     "ྦྷ", "ྨ", "ྩ", "ྪ", "ྫ", "ྫྷ", "ྭ", "ྮ", "ྯ", "ྰ", "ྱ", "ྲ",
     "ླ", "ྴ", "ྵ", "ྶ", "ྷ", "ྸ", "ྐྵ", "ྺ", "ྻ", "ྼ", "࿆", "ႂ",
     "ႅ", "ႆ", "ႍ", "ႝ", "ჼ", "឴", "឵", "ិ", "ី", "ឹ", "ឺ", "ុ",
     "ូ", "ួ", "ំ", "៉", "៊", "់", "៌", "៍", "៎", "៏", "័", "៑",
     "្", "៓", "ៗ", "៝", "ᢅ", "ᢆ", "ᢩ", "ᪧ", "᪰", "᪱", "᪲", "᪳",
     "᪴", "᪵", "᪶", "᪷", "᪸", "᪹", "᪺", "᪻", "᪼", "᪽", "᪾", "ᪿ",
     "ᫀ", "᫁", "᫂", "᫃", "᫄", "᫅", "᫆", "᫇", "᫈", "᫉", "᫊", "᫋",
     "ᫌ", "ᫍ", "ᫎ", "ᮀ", "ᮁ", "ᮢ", "ᮣ", "ᮤ", "ᮥ", "ᮨ", "ᮩ", "᮫",
     "ᮬ", "ᮭ", "᯦", "ᯨ", "ᯩ", "ᯭ", "ᯯ", "ᯰ", "ᯱ", "᳐", "᳑", "᳒",
     "᳔", "᳕", "᳖", "᳗", "᳘", "᳙", "᳚", "᳛", "᳜", "᳝", "᳞", "᳟",
     "᳠", "᳢", "᳣", "᳤", "᳥", "᳦", "᳧", "᳨", "᳭", "᳴", "᳸", "᳹",
     "ᶛ", "ᶜ", "ᶝ", "ᶞ", "ᶟ", "ᶠ", "ᶡ", "ᶢ", "ᶣ", "ᶤ", "ᶥ", "ᶦ",
     "ᶧ", "ᶨ", "ᶩ", "ᶪ", "ᶫ", "ᶬ", "ᶭ", "ᶮ", "ᶯ", "ᶰ", "ᶱ", "ᶲ",
     "ᶳ", "ᶴ", "ᶵ", "ᶶ", "ᶷ", "ᶸ", "ᶹ", "ᶺ", "ᶻ", "ᶼ", "ᶽ", "ᶾ",
     "ᶿ", "᷀", "᷁", "᷂", "᷃", "᷄", "᷅", "᷆", "᷇", "᷈", "᷉", "᷊",
     "᷋", "᷌", "᷍", "᷎", "᷏", "᷐", "᷑", "᷒", "ᷓ", "ᷔ", "ᷕ", "ᷖ",
     "ᷗ", "ᷘ", "ᷙ", "ᷚ", "ᷛ", "ᷜ", "ᷝ", "ᷞ", "ᷟ", "ᷠ", "ᷡ", "ᷢ",
     "ᷣ", "ᷤ", "ᷥ", "ᷦ", "ᷧ", "ᷨ", "ᷩ", "ᷪ", "ᷫ", "ᷬ", "ᷭ", "ᷮ",
     "ᷯ", "ᷰ", "ᷱ", "ᷲ", "ᷳ", "ᷴ", "᷵", "᷶", "᷷", "᷸", "᷹", "᷺",
     "᷻", "᷼", "᷽", "᷾", "᷿", "᾽", "᾿", "῀", "῁", "῍", "῎", "῏",
     "῝", "῞", "῟", "῭", "΅", "`", "´", "῾", "ₐ", "ₑ", "ₒ", "ₓ",
     "ₔ", "ₕ", "ₖ", "ₗ", "ₘ", "ₙ", "ₚ", "ₛ", "ₜ", "⃐", "⃑", "⃒",
     "⃓", "⃔", "⃕", "⃖", "⃗", "⃘", "⃙", "⃚", "⃛", "⃜", "⃝", "⃞",
     "⃟", "⃠", "⃡", "⃢", "⃣", "⃤", "⃥", "⃦", "⃧", "⃨", "⃩", "⃪",
     "⃫", "⃬", "⃭", "⃮", "⃯", "⃰", "⳯", "⳰", "⳱", "ⷠ", "ⷡ", "ⷢ",
     "ⷣ", "ⷤ", "ⷥ", "ⷦ", "ⷧ", "ⷨ", "ⷩ", "ⷪ", "ⷫ", "ⷬ", "ⷭ", "ⷮ",
     "ⷯ", "ⷰ", "ⷱ", "ⷲ", "ⷳ", "ⷴ", "ⷵ", "ⷶ", "ⷷ", "ⷸ", "ⷹ", "ⷺ",
     "ⷻ", "ⷼ", "ⷽ", "ⷾ", "ⷿ", "゙", "゚", "゛", "゜", "ゝ", "ゞ", "ー",
     "ヽ", "ヾ", "ꓸ", "ꓹ", "ꓺ", "ꓻ", "ꓼ", "ꓽ", "ꚜ", "ꚝ", "ꚞ", "ꚟ",
     "꛰", "꛱", "ꞈ", "꞉", "꞊", "ꟲ", "ꟳ", "ꟴ", "ꟸ", "ꟹ", "꣄", "ꣅ",
     "꣠", "꣡", "꣢", "꣣", "꣤", "꣥", "꣦", "꣧", "꣨", "꣩", "꣪", "꣫",
     "꣬", "꣭", "꣮", "꣯", "꣰", "꣱", "ꣿ", "ꦀ", "ꦁ", "ꦂ", "꦳", "ꦶ",
     "ꦷ", "ꦸ", "ꦹ", "ꦼ", "ꦽ", "ꧏ", "ꧥ", "ꧦ", "ꪰ", "ꪲ", "ꪳ", "ꪴ",
     "ꪷ", "ꪸ", "ꪾ", "꪿", "꫁", "ꫝ", "ꫬ", "ꫭ", "ꫳ", "ꫴ", "꫶", "ꯥ",
     "ꯨ", "꯭", "﮲", "﮳", "﮴", "﮵", "﮶", "﮷", "﮸", "﮹", "﮺", "﮻",
     "﮼", "﮽", "﮾", "﮿", "﯀", "﯁", "﯂", "﻿", "ﾞ", "ﾟ", "￣", "￹",
     "￺", "￻"}

(* Cased characters that are not case-ignorable *)
cased_chars ==
    {"A", "B", "C", "D", "E", "F", "G", "H", "I", "J", "K", "L",
     "M", "N", "O", "P", "Q", "R", "S", "T", "U", "V", "W", "X",
     "Y", "Z", "a", "b", "c", "d", "e", "f", "g", "h", "i", "j",
     "k", "l", "m", "n", "o", "p", "q", "r", "s", "t", "u", "v",
     "w", "x", "y", "z", "ª", "µ", "º", "À", "Á", "Â", "Ã", "Ä",
     "Å", "Æ", "Ç", "È", "É", "Ê", "Ë", "Ì", "Í", "Î", "Ï", "Ð",
     "Ñ", "Ò", "Ó", "Ô", "Õ", "Ö", "Ø", "Ù", "Ú", "Û", "Ü", "Ý",
     "Þ", "ß", "à", "á", "â", "ã", "ä", "å", "æ", "ç", "è", "é",
     "ê", "ë", "ì", "í", "î", "ï", "ð", "ñ", "ò", "ó", "ô", "õ",
     "ö", "ø", "ù", "ú", "û", "ü", "ý", "þ", "ÿ", "ƀ", "Ɓ", "Ƃ",
     "ƃ", "Ƅ", "ƅ", "Ɔ", "Ƈ", "ƈ", "Ɖ", "Ɗ", "Ƌ", "ƌ", "ƍ", "Ǝ",
     "Ə", "Ɛ", "Ƒ", "ƒ", "Ɠ", "Ɣ", "ƕ", "Ɩ", "Ɨ", "Ƙ", "ƙ", "ƚ",
     "ƛ", "Ɯ", "Ɲ", "ƞ", "Ɵ", "Ơ", "ơ", "Ƣ", "ƣ", "Ƥ", "ƥ", "Ʀ",
     "Ƨ", "ƨ", "Ʃ", "ƪ", "ƫ", "Ƭ", "ƭ", "Ʈ", "Ư", "ư", "Ʊ", "Ʋ",
     "Ƴ", "ƴ", "Ƶ", "ƶ", "Ʒ", "Ƹ", "ƹ", "ƺ", "Ƽ", "ƽ", "ƾ", "ƿ",
     "Ǆ", "ǅ", "ǆ", "Ǉ", "ǈ", "ǉ", "Ǌ", "ǋ", "ǌ", "Ǎ", "ǎ", "Ǐ",
     "ǐ", "Ǒ", "ǒ", "Ǔ", "ǔ", "Ǖ", "ǖ", "Ǘ", "ǘ", "Ǚ", "ǚ", "Ǜ",
     "ǜ", "ǝ", "Ǟ", "ǟ", "Ǡ", "ǡ", "Ǣ", "ǣ", "Ǥ", "ǥ", "Ǧ", "ǧ",
     "Ǩ", "ǩ", "Ǫ", "ǫ", "Ǭ", "ǭ", "Ǯ", "ǯ", "ǰ", "Ǳ", "ǲ", "ǳ",
     "Ǵ", "ǵ", "Ƕ", "Ƿ", "Ǹ", "ǹ", "Ǻ", "ǻ", "Ǽ", "ǽ", "Ǿ", "ǿ",
     "ʀ", "ʁ", "ʂ", "ʃ", "ʄ", "ʅ", "ʆ", "ʇ", "ʈ", "ʉ", "ʊ", "ʋ",
     "ʌ", "ʍ", "ʎ", "ʏ", "ʐ", "ʑ", "ʒ", "ʓ", "ʕ", "ʖ", "ʗ", "ʘ",
     "ʙ", "ʚ", "ʛ", "ʜ", "ʝ", "ʞ", "ʟ", "ʠ", "ʡ", "ʢ", "ʣ", "ʤ",
     "ʥ", "ʦ", "ʧ", "ʨ", "ʩ", "ʪ", "ʫ", "ʬ", "ʭ", "ʮ", "ʯ", "Ά",
     "Έ", "Ή", "Ί", "Ό", "Ύ", "Ώ", "ΐ", "Α", "Β", "Γ", "Δ", "Ε",
     "Ζ", "Η", "Θ", "Ι", "Κ", "Λ", "Μ", "Ν", "Ξ", "Ο", "Π", "Ρ",
     "Σ", "Τ", "Υ", "Φ", "Χ", "Ψ", "Ω", "Ϊ", "Ϋ", "ά", "έ", "ή",
     "ί", "ΰ", "α", "β", "γ", "δ", "ε", "ζ", "η", "θ", "ι", "κ",
     "λ", "μ", "ν", "ξ", "ο", "π", "ρ", "ς", "σ", "τ", "υ", "φ",
     "χ", "ψ", "ω", "ϊ", "ϋ", "ό", "ύ", "ώ", "Ϗ", "ϐ", "ϑ", "ϒ",
     "ϓ", "ϔ", "ϕ", "ϖ", "ϗ", "Ϙ", "ϙ", "Ϛ", "ϛ", "Ϝ", "ϝ", "Ϟ",
     "ϟ", "Ϡ", "ϡ", "Ϣ", "ϣ", "Ϥ", "ϥ", "Ϧ", "ϧ", "Ϩ", "ϩ", "Ϫ",
     "ϫ", "Ϭ", "ϭ", "Ϯ", "ϯ", "ϰ", "ϱ", "ϲ", "ϳ", "ϴ", "ϵ", "Ϸ",
     "ϸ", "Ϲ", "Ϻ", "ϻ", "ϼ", "Ͻ", "Ͼ", "Ͽ", "Ҁ", "ҁ", "Ҋ", "ҋ",
     "Ҍ", "ҍ", "Ҏ", "ҏ", "Ґ", "ґ", "Ғ", "ғ", "Ҕ", "ҕ", "Җ", "җ",
     "Ҙ", "ҙ", "Қ", "қ", "Ҝ", "ҝ", "Ҟ", "ҟ", "Ҡ", "ҡ", "Ң", "ң",
     "Ҥ", "ҥ", "Ҧ", "ҧ", "Ҩ", "ҩ", "Ҫ", "ҫ", "Ҭ", "ҭ", "Ү", "ү",
     "Ұ", "ұ", "Ҳ", "ҳ", "Ҵ", "ҵ", "Ҷ", "ҷ", "Ҹ", "ҹ", "Һ", "һ",
     "Ҽ", "ҽ", "Ҿ", "ҿ", "Ӏ", "Ӂ", "ӂ", "Ӄ", "ӄ", "Ӆ", "ӆ", "Ӈ",
     "ӈ", "Ӊ", "ӊ", "Ӌ", "ӌ", "Ӎ", "ӎ", "ӏ", "Ӑ", "ӑ", "Ӓ", "ӓ",
     "Ӕ", "ӕ", "Ӗ", "ӗ", "Ә", "ә", "Ӛ", "ӛ", "Ӝ", "ӝ", "Ӟ", "ӟ",
     "Ӡ", "ӡ", "Ӣ", "ӣ", "Ӥ", "ӥ", "Ӧ", "ӧ", "Ө", "ө", "Ӫ", "ӫ",
     "Ӭ", "ӭ", "Ӯ", "ӯ", "Ӱ", "ӱ", "Ӳ", "ӳ", "Ӵ", "ӵ", "Ӷ", "ӷ",
     "Ӹ", "ӹ", "Ӻ", "ӻ", "Ӽ", "ӽ", "Ӿ", "ӿ", "ր", "ց", "ւ", "փ",
     "ք", "օ", "ֆ", "և", "ֈ", "Ⴀ", "Ⴁ", "Ⴂ", "Ⴃ", "Ⴄ", "Ⴅ", "Ⴆ",
     "Ⴇ", "Ⴈ", "Ⴉ", "Ⴊ", "Ⴋ", "Ⴌ", "Ⴍ", "Ⴎ", "Ⴏ", "Ⴐ", "Ⴑ", "Ⴒ",
     "Ⴓ", "Ⴔ", "Ⴕ", "Ⴖ", "Ⴗ", "Ⴘ", "Ⴙ", "Ⴚ", "Ⴛ", "Ⴜ", "Ⴝ", "Ⴞ",
     "Ⴟ", "Ⴠ", "Ⴡ", "Ⴢ", "Ⴣ", "Ⴤ", "Ⴥ", "Ⴧ", "Ⴭ", "ა", "ბ", "გ",
     "დ", "ე", "ვ", "ზ", "თ", "ი", "კ", "ლ", "მ", "ნ", "ო", "პ",
     "ჟ", "რ", "ს", "ტ", "უ", "ფ", "ქ", "ღ", "ყ", "შ", "ჩ", "ც",
     "ძ", "წ", "ჭ", "ხ", "ჯ", "ჰ", "ჱ", "ჲ", "ჳ", "ჴ", "ჵ", "ჶ",
     "ჷ", "ჸ", "ჹ", "ჺ", "ჽ", "ჾ", "ჿ", "Ꭰ", "Ꭱ", "Ꭲ", "Ꭳ", "Ꭴ",
     "Ꭵ", "Ꭶ", "Ꭷ", "Ꭸ", "Ꭹ", "Ꭺ", "Ꭻ", "Ꭼ", "Ꭽ", "Ꭾ", "Ꭿ", "Ꮀ",
     "Ꮁ", "Ꮂ", "Ꮃ", "Ꮄ", "Ꮅ", "Ꮆ", "Ꮇ", "Ꮈ", "Ꮉ", "Ꮊ", "Ꮋ", "Ꮌ",
     "Ꮍ", "Ꮎ", "Ꮏ", "Ꮐ", "Ꮑ", "Ꮒ", "Ꮓ", "Ꮔ", "Ꮕ", "Ꮖ", "Ꮗ", "Ꮘ",
     "Ꮙ", "Ꮚ", "Ꮛ", "Ꮜ", "Ꮝ", "Ꮞ", "Ꮟ", "Ꮠ", "Ꮡ", "Ꮢ", "Ꮣ", "Ꮤ",
     "Ꮥ", "Ꮦ", "Ꮧ", "Ꮨ", "Ꮩ", "Ꮪ", "Ꮫ", "Ꮬ", "Ꮭ", "Ꮮ", "Ꮯ", "Ꮰ",
     "Ꮱ", "Ꮲ", "Ꮳ", "Ꮴ", "Ꮵ", "Ꮶ", "Ꮷ", "Ꮸ", "Ꮹ", "Ꮺ", "Ꮻ", "Ꮼ",
     "Ꮽ", "Ꮾ", "Ꮿ", "Ᏸ", "Ᏹ", "Ᏺ", "Ᏻ", "Ᏼ", "Ᏽ", "ᏸ", "ᏹ", "ᏺ",
     "ᏻ", "ᏼ", "ᏽ", "ᲀ", "ᲁ", "ᲂ", "ᲃ", "ᲄ", "ᲅ", "ᲆ", "ᲇ", "ᲈ",
     "Ა", "Ბ", "Გ", "Დ", "Ე", "Ვ", "Ზ", "Თ", "Ი", "Კ", "Ლ", "Მ",
     "Ნ", "Ო", "Პ", "Ჟ", "Რ", "Ს", "Ტ", "Უ", "Ფ", "Ქ", "Ღ", "Ყ",
     "Შ", "Ჩ", "Ც", "Ძ", "Წ", "Ჭ", "Ხ", "Ჯ", "Ჰ", "Ჱ", "Ჲ", "Ჳ",
     "Ჴ", "Ჵ", "Ჶ", "Ჷ", "Ჸ", "Ჹ", "Ჺ", "Ჽ", "Ჾ", "Ჿ", "ᶀ", "ᶁ",
     "ᶂ", "ᶃ", "ᶄ", "ᶅ", "ᶆ", "ᶇ", "ᶈ", "ᶉ", "ᶊ", "ᶋ", "ᶌ", "ᶍ",
     "ᶎ", "ᶏ", "ᶐ", "ᶑ", "ᶒ", "ᶓ", "ᶔ", "ᶕ", "ᶖ", "ᶗ", "ᶘ", "ᶙ",
     "ᶚ", "Ẁ", "ẁ", "Ẃ", "ẃ", "Ẅ", "ẅ", "Ẇ", "ẇ", "Ẉ", "ẉ", "Ẋ",
     "ẋ", "Ẍ", "ẍ", "Ẏ", "ẏ", "Ẑ", "ẑ", "Ẓ", "ẓ", "Ẕ", "ẕ", "ẖ",
     "ẗ", "ẘ", "ẙ", "ẚ", "ẛ", "ẜ", "ẝ", "ẞ", "ẟ", "Ạ", "ạ", "Ả",
     "ả", "Ấ", "ấ", "Ầ", "ầ", "Ẩ", "ẩ", "Ẫ", "ẫ", "Ậ", "ậ", "Ắ",
     "ắ", "Ằ", "ằ", "Ẳ", "ẳ", "Ẵ", "ẵ", "Ặ", "ặ", "Ẹ", "ẹ", "Ẻ",
     "ẻ", "Ẽ", "ẽ", "Ế", "ế", "Ề", "ề", "Ể", "ể", "Ễ", "ễ", "Ệ",
     "ệ", "Ỉ", "ỉ", "Ị", "ị", "Ọ", "ọ", "Ỏ", "ỏ", "Ố", "ố", "Ồ",
     "ồ", "Ổ", "ổ", "Ỗ", "ỗ", "Ộ", "ộ", "Ớ", "ớ", "Ờ", "ờ", "Ở",
     "ở", "Ỡ", "ỡ", "Ợ", "ợ", "Ụ", "ụ", "Ủ", "ủ", "Ứ", "ứ", "Ừ",
     "ừ", "Ử", "ử", "Ữ", "ữ", "Ự", "ự", "Ỳ", "ỳ", "Ỵ", "ỵ", "Ỷ",
     "ỷ", "Ỹ", "ỹ", "Ỻ", "ỻ", "Ỽ", "ỽ", "Ỿ", "ỿ", "ᾀ", "ᾁ", "ᾂ",
     "ᾃ", "ᾄ", "ᾅ", "ᾆ", "ᾇ", "ᾈ", "ᾉ", "ᾊ", "ᾋ", "ᾌ", "ᾍ", "ᾎ",
     "ᾏ", "ᾐ", "ᾑ", "ᾒ", "ᾓ", "ᾔ", "ᾕ", "ᾖ", "ᾗ", "ᾘ", "ᾙ", "ᾚ",
     "ᾛ", "ᾜ", "ᾝ", "ᾞ", "ᾟ", "ᾠ", "ᾡ", "ᾢ", "ᾣ", "ᾤ", "ᾥ", "ᾦ",
     "ᾧ", "ᾨ", "ᾩ", "ᾪ", "ᾫ", "ᾬ", "ᾭ", "ᾮ", "ᾯ", "ᾰ", "ᾱ", "ᾲ",
     "ᾳ", "ᾴ", "ᾶ", "ᾷ", "Ᾰ", "Ᾱ", "Ὰ", "Ά", "ᾼ", "ι", "ῂ", "ῃ",
     "ῄ", "ῆ", "ῇ", "Ὲ", "Έ", "Ὴ", "Ή", "ῌ", "ῐ", "ῑ", "ῒ", "ΐ",
     "ῖ", "ῗ", "Ῐ", "Ῑ", "Ὶ", "Ί", "ῠ", "ῡ", "ῢ", "ΰ", "ῤ", "ῥ",
     "ῦ", "ῧ", "Ῠ", "Ῡ", "Ὺ", "Ύ", "Ῥ", "ῲ", "ῳ", "ῴ", "ῶ", "ῷ",
     "Ὸ", "Ό", "Ὼ", "Ώ", "ῼ", "Ↄ", "ↄ", "Ⓐ", "Ⓑ", "Ⓒ", "Ⓓ", "Ⓔ",
     "Ⓕ", "Ⓖ", "Ⓗ", "Ⓘ", "Ⓙ", "Ⓚ", "Ⓛ", "Ⓜ", "Ⓝ", "Ⓞ", "Ⓟ", "Ⓠ",
     "Ⓡ", "Ⓢ", "Ⓣ", "Ⓤ", "Ⓥ", "Ⓦ", "Ⓧ", "Ⓨ", "Ⓩ", "ⓐ", "ⓑ", "ⓒ",
     "ⓓ", "ⓔ", "ⓕ", "ⓖ", "ⓗ", "ⓘ", "ⓙ", "ⓚ", "ⓛ", "ⓜ", "ⓝ", "ⓞ",
     "ⓟ", "ⓠ", "ⓡ", "ⓢ", "ⓣ", "ⓤ", "ⓥ", "ⓦ", "ⓧ", "ⓨ", "ⓩ", "Ⲁ",
     "ⲁ", "Ⲃ", "ⲃ", "Ⲅ", "ⲅ", "Ⲇ", "ⲇ", "Ⲉ", "ⲉ", "Ⲋ", "ⲋ", "Ⲍ",
     "ⲍ", "Ⲏ", "ⲏ", "Ⲑ", "ⲑ", "Ⲓ", "ⲓ", "Ⲕ", "ⲕ", "Ⲗ", "ⲗ", "Ⲙ",
     "ⲙ", "Ⲛ", "ⲛ", "Ⲝ", "ⲝ", "Ⲟ", "ⲟ", "Ⲡ", "ⲡ", "Ⲣ", "ⲣ", "Ⲥ",
     "ⲥ", "Ⲧ", "ⲧ", "Ⲩ", "ⲩ", "Ⲫ", "ⲫ", "Ⲭ", "ⲭ", "Ⲯ", "ⲯ", "Ⲱ",
     "ⲱ", "Ⲳ", "ⲳ", "Ⲵ", "ⲵ", "Ⲷ", "ⲷ", "Ⲹ", "ⲹ", "Ⲻ", "ⲻ", "Ⲽ",
     "ⲽ", "Ⲿ", "ⲿ", "Ⳁ", "ⳁ", "Ⳃ", "ⳃ", "Ⳅ", "ⳅ", "Ⳇ", "ⳇ", "Ⳉ",
     "ⳉ", "Ⳋ", "ⳋ", "Ⳍ", "ⳍ", "Ⳏ", "ⳏ", "Ⳑ", "ⳑ", "Ⳓ", "ⳓ", "Ⳕ",
     "ⳕ", "Ⳗ", "ⳗ", "Ⳙ", "ⳙ", "Ⳛ", "ⳛ", "Ⳝ", "ⳝ", "Ⳟ", "ⳟ", "Ⳡ",
     "ⳡ", "Ⳣ", "ⳣ", "ⳤ", "Ⳬ", "ⳬ", "Ⳮ", "ⳮ", "Ⳳ", "ⳳ", "Ꚁ", "ꚁ",
     "Ꚃ", "ꚃ", "Ꚅ", "ꚅ", "Ꚇ", "ꚇ", "Ꚉ", "ꚉ", "Ꚋ", "ꚋ", "Ꚍ", "ꚍ",
     "Ꚏ", "ꚏ", "Ꚑ", "ꚑ", "Ꚓ", "ꚓ", "Ꚕ", "ꚕ", "Ꚗ", "ꚗ", "Ꚙ", "ꚙ",
     "Ꚛ", "ꚛ", "Ꞁ", "ꞁ", "Ꞃ", "ꞃ", "Ꞅ", "ꞅ", "Ꞇ", "ꞇ", "Ꞌ", "ꞌ",
     "Ɥ", "ꞎ", "Ꞑ", "ꞑ", "Ꞓ", "ꞓ", "ꞔ", "ꞕ", "Ꞗ", "ꞗ", "Ꞙ", "ꞙ",
     "Ꞛ", "ꞛ", "Ꞝ", "ꞝ", "Ꞟ", "ꞟ", "Ꞡ", "ꞡ", "Ꞣ", "ꞣ", "Ꞥ", "ꞥ",
     "Ꞧ", "ꞧ", "Ꞩ", "ꞩ", "Ɦ", "Ɜ", "Ɡ", "Ɬ", "Ɪ", "ꞯ", "Ʞ", "Ʇ",
     "Ʝ", "Ꭓ", "Ꞵ", "ꞵ", "Ꞷ", "ꞷ", "Ꞹ", "ꞹ", "Ꞻ", "ꞻ", "Ꞽ", "ꞽ",
     "Ꞿ", "ꞿ", "Ꟁ", "ꟁ", "Ꟃ", "ꟃ", "Ꞔ", "Ʂ", "Ᶎ", "Ꟈ", "ꟈ", "Ꟊ",
     "ꟊ", "Ꟑ", "ꟑ", "ꟓ", "ꟕ", "Ꟗ", "ꟗ", "Ꟙ", "ꟙ", "Ꟶ", "ꟶ", "ꟺ",
     "ꮀ", "ꮁ", "ꮂ", "ꮃ", "ꮄ", "ꮅ", "ꮆ", "ꮇ", "ꮈ", "ꮉ", "ꮊ", "ꮋ",
     "ꮌ", "ꮍ", "ꮎ", "ꮏ", "ꮐ", "ꮑ", "ꮒ", "ꮓ", "ꮔ", "ꮕ", "ꮖ", "ꮗ",
     "ꮘ", "ꮙ", "ꮚ", "ꮛ", "ꮜ", "ꮝ", "ꮞ", "ꮟ", "ꮠ", "ꮡ", "ꮢ", "ꮣ",
     "ꮤ", "ꮥ", "ꮦ", "ꮧ", "ꮨ", "ꮩ", "ꮪ", "ꮫ", "ꮬ", "ꮭ", "ꮮ", "ꮯ",
     "ꮰ", "ꮱ", "ꮲ", "ꮳ", "ꮴ", "ꮵ", "ꮶ", "ꮷ", "ꮸ", "ꮹ", "ꮺ", "ꮻ",
     "ꮼ", "ꮽ", "ꮾ", "ꮿ"}

capital_sigma == "Σ"
small_sigma == "σ"
final_sigma == "ς"

(* The nearest position at or before j whose character is not             *)
(* case-ignorable, 0 when there is none                                     *)
RECURSIVE before_ignorable(_, _)
before_ignorable(s, j) ==
    IF j < 1 THEN 0
    ELSE IF s[j] \in case_ignorable_chars THEN before_ignorable(s, j - 1)
    ELSE j

(* The nearest position at or after j whose character is not               *)
(* case-ignorable, Len(s) + 1 when there is none                            *)
RECURSIVE after_ignorable(_, _)
after_ignorable(s, j) ==
    IF j > Len(s) THEN Len(s) + 1
    ELSE IF s[j] \in case_ignorable_chars THEN after_ignorable(s, j + 1)
    ELSE j

(* A capital sigma lowers to the final form after a cased letter when no    *)
(* cased letter follows                                                     *)
handle_capital_sigma(s, i) ==
    LET j == before_ignorable(s, i - 1)
        k == after_ignorable(s, i + 1)
    IN  IF /\ j >= 1
           /\ s[j] \in cased_chars
           /\ (k > Len(s) \/ s[k] \notin cased_chars)
        THEN final_sigma
        ELSE small_sigma

lower(s) ==
    [i \in 1..Len(s) |->
        IF s[i] = capital_sigma THEN handle_capital_sigma(s, i) ELSE LowerOf(s[i])]

----------------------------------------------------------------------------
(* BuiltinTypeInspector.__init__ *)

BuiltinTypesLiteral ==
    << <<t_str, <<"<class 'str'>">> >>,
       <<t_int, <<"<class 'int'>">> >>,
       <<t_float, <<"<class 'float'>">> >>,
       <<t_complex, <<"<class 'complex'>">> >>,
       <<t_list, <<"<class 'list'>">> >>,
       <<t_tuple, <<"<class 'tuple'>">> >>,
       <<t_dict, <<"<class 'dict'>">> >>,
       <<t_set, <<"<class 'set'>">> >>,
       <<t_frozenset, <<"<class 'frozenset'>">> >>,
       <<t_bool, <<"<class 'bool'>">> >>,
       <<t_bytes, <<"<class 'bytes'>">> >>,
       <<t_bytearray, <<"<class 'bytearray'>">> >>,
       <<t_memoryview, <<"<class 'memoryview'>">> >>,
       <<t_range, <<"<class 'range'>">> >>,
       <<t_slice, <<"<class 'slice'>">> >>,
       <<t_type, <<"<class 'type'>">> >>,
       <<t_object, <<"<class 'object'>">> >> >>

(* A dict display: the keys in order, a later pair overriding an earlier one *)
DictOf(pairs) ==
    [k \in {pairs[i][1] : i \in DOMAIN pairs} |->
        LET last == CHOOSE i \in DOMAIN pairs :
                        /\ pairs[i][1] = k
                        /\ \A j \in DOMAIN pairs : pairs[j][1] = k => j <= i
        IN  pairs[last][2]]

init_builtin_types == DictOf(BuiltinTypesLiteral)

(* The inspector object, as the methods see it *)
Self == [builtin_types |-> builtin_types,
         current_type |-> current_type,
         current_type_name |-> current_type_name]

(* not x, for x a type handle or None: every type object is truthy *)
Not(x) == x = None

Ev(kind, arg) == [ev |-> kind, arg |-> arg]

NoCall == [called |-> FALSE, arg |-> <<>>, ret |-> FALSE]
Call(arg, ret) == [called |-> TRUE, arg |-> arg, ret |-> ret]

----------------------------------------------------------------------------
(* The distinct texts str(inspect.signature(attr)) yields over the          *)
(* attributes of the registry's types (CPython 3.11).                       *)
sig_texts ==
    <<
      (* 1: (self, value, /) *)
      <<"(","s","e","l","f",","," ","v","a","l","u","e",","," ","/",")">>,
      (* 2: () *)
      <<"(",")">>,
      (* 3: ( *args, **kwargs) *)
      <<"(","*","a","r","g","s",","," ","*","*","k","w","a","r","g","s",")">>,
      (* 4: (self, key, /) *)
      <<"(","s","e","l","f",","," ","k","e","y",","," ","/",")">>,
      (* 5: (self, name, /) *)
      <<"(","s","e","l","f",","," ","n","a","m","e",","," ","/",")">>,
      (* 6: (self, /) *)
      <<"(","s","e","l","f",","," ","/",")">>,
      (* 7: (self, format_spec, /) *)
      <<"(","s","e","l","f",","," ","f","o","r","m","a","t","_","s","p","e","c",","," ","/",")">>,
      (* 8: (self, /, *args, **kwargs) *)
      <<"(","s","e","l","f",","," ","/",","," ","*","a","r","g","s",","," ","*","*","k","w","a","r","g",
        "s",")">>,
      (* 9: (instance, /) *)
      <<"(","i","n","s","t","a","n","c","e",","," ","/",")">>,
      (* 10: (value, /) *)
      <<"(","v","a","l","u","e",","," ","/",")">>,
      (* 11: (self, protocol, /) *)
      <<"(","s","e","l","f",","," ","p","r","o","t","o","c","o","l",","," ","/",")">>,
      (* 12: (self, name, value, /) *)
      <<"(","s","e","l","f",","," ","n","a","m","e",","," ","v","a","l","u","e",","," ","/",")">>,
      (* 13: (subclass, /) *)
      <<"(","s","u","b","c","l","a","s","s",","," ","/",")">>,
      (* 14: (self, width, fillchar=' ', /) *)
      <<"(","s","e","l","f",","," ","w","i","d","t","h",","," ","f","i","l","l","c","h","a","r","=","'",
        " ","'",","," ","/",")">>,
      (* 15: (self, /, encoding='utf-8', errors='strict') *)
      <<"(","s","e","l","f",","," ","/",","," ","e","n","c","o","d","i","n","g","=","'","u","t","f","-",
        "8","'",","," ","e","r","r","o","r","s","=","'","s","t","r","i","c","t","'",")">>,
      (* 16: (self, /, tabsize=8) *)
      <<"(","s","e","l","f",","," ","/",","," ","t","a","b","s","i","z","e","=","8",")">>,
      (* 17: (self, iterable, /) *)
      <<"(","s","e","l","f",","," ","i","t","e","r","a","b","l","e",","," ","/",")">>,
      (* 18: (self, chars=None, /) *)
      <<"(","s","e","l","f",","," ","c","h","a","r","s","=","N","o","n","e",","," ","/",")">>,
      (* 19: (self, sep, /) *)
      <<"(","s","e","l","f",","," ","s","e","p",","," ","/",")">>,
      (* 20: (self, prefix, /) *)
      <<"(","s","e","l","f",","," ","p","r","e","f","i","x",","," ","/",")">>,
      (* 21: (self, suffix, /) *)
      <<"(","s","e","l","f",","," ","s","u","f","f","i","x",","," ","/",")">>,
      (* 22: (self, old, new, count=-1, /) *)
      <<"(","s","e","l","f",","," ","o","l","d",","," ","n","e","w",","," ","c","o","u","n","t","=","-",
        "1",","," ","/",")">>,
      (* 23: (self, /, sep=None, maxsplit=-1) *)
      <<"(","s","e","l","f",","," ","/",","," ","s","e","p","=","N","o","n","e",","," ","m","a","x","s",
        "p","l","i","t","=","-","1",")">>,
      (* 24: (self, /, keepends=False) *)
      <<"(","s","e","l","f",","," ","/",","," ","k","e","e","p","e","n","d","s","=","F","a","l","s","e",
        ")">>,
      (* 25: (self, table, /) *)
      <<"(","s","e","l","f",","," ","t","a","b","l","e",","," ","/",")">>,
      (* 26: (self, width, /) *)
      <<"(","s","e","l","f",","," ","w","i","d","t","h",","," ","/",")">>,
      (* 27: (self, value, mod=None, /) *)
      <<"(","s","e","l","f",","," ","v","a","l","u","e",","," ","m","o","d","=","N","o","n","e",","," ",
        "/",")">>,
      (* 28: (bytes, byteorder='big', *, signed=False) *)
      <<"(","b","y","t","e","s",","," ","b","y","t","e","o","r","d","e","r","=","'","b","i","g","'",",",
        " ","*",","," ","s","i","g","n","e","d","=","F","a","l","s","e",")">>,
      (* 29: (self, /, length=1, byteorder='big', *, signed=False) *)
      <<"(","s","e","l","f",","," ","/",","," ","l","e","n","g","t","h","=","1",","," ","b","y","t","e",
        "o","r","d","e","r","=","'","b","i","g","'",","," ","*",","," ","s","i","g","n","e","d","=",
        "F","a","l","s","e",")">>,
      (* 30: (typestr, /) *)
      <<"(","t","y","p","e","s","t","r",","," ","/",")">>,
      (* 31: (self, ndigits=None, /) *)
      <<"(","s","e","l","f",","," ","n","d","i","g","i","t","s","=","N","o","n","e",","," ","/",")">>,
      (* 32: (string, /) *)
      <<"(","s","t","r","i","n","g",","," ","/",")">>,
      (* 33: (self, key, value, /) *)
      <<"(","s","e","l","f",","," ","k","e","y",","," ","v","a","l","u","e",","," ","/",")">>,
      (* 34: (self, object, /) *)
      <<"(","s","e","l","f",","," ","o","b","j","e","c","t",","," ","/",")">>,
      (* 35: (self, value, start=0, stop=9223372036854775807, /) *)
      <<"(","s","e","l","f",","," ","v","a","l","u","e",","," ","s","t","a","r","t","=","0",","," ","s",
        "t","o","p","=","9","2","2","3","3","7","2","0","3","6","8","5","4","7","7","5","8","0","7",
        ","," ","/",")">>,
      (* 36: (self, index, object, /) *)
      <<"(","s","e","l","f",","," ","i","n","d","e","x",","," ","o","b","j","e","c","t",","," ","/",")">>,
      (* 37: (self, index=-1, /) *)
      <<"(","s","e","l","f",","," ","i","n","d","e","x","=","-","1",","," ","/",")">>,
      (* 38: (self, /, *, key=None, reverse=False) *)
      <<"(","s","e","l","f",","," ","/",","," ","*",","," ","k","e","y","=","N","o","n","e",","," ","r",
        "e","v","e","r","s","e","=","F","a","l","s","e",")">>,
      (* 39: (iterable, value=None, /) *)
      <<"(","i","t","e","r","a","b","l","e",","," ","v","a","l","u","e","=","N","o","n","e",","," ","/",
        ")">>,
      (* 40: (self, key, default=None, /) *)
      <<"(","s","e","l","f",","," ","k","e","y",","," ","d","e","f","a","u","l","t","=","N","o","n","e",
        ","," ","/",")">>,
      (* 41: (self, width, fillchar=b' ', /) *)
      <<"(","s","e","l","f",","," ","w","i","d","t","h",","," ","f","i","l","l","c","h","a","r","=","b",
        "'"," ","'",","," ","/",")">>,
      (* 42: (self, iterable_of_bytes, /) *)
      <<"(","s","e","l","f",","," ","i","t","e","r","a","b","l","e","_","o","f","_","b","y","t","e","s",
        ","," ","/",")">>,
      (* 43: (self, bytes=None, /) *)
      <<"(","s","e","l","f",","," ","b","y","t","e","s","=","N","o","n","e",","," ","/",")">>,
      (* 44: (frm, to, /) *)
      <<"(","f","r","m",","," ","t","o",","," ","/",")">>,
      (* 45: (self, table, /, delete=b'') *)
      <<"(","s","e","l","f",","," ","t","a","b","l","e",","," ","/",","," ","d","e","l","e","t","e","=",
        "b","'","'",")">>,
      (* 46: (self, proto=0, /) *)
      <<"(","s","e","l","f",","," ","p","r","o","t","o","=","0",","," ","/",")">>,
      (* 47: (self, item, /) *)
      <<"(","s","e","l","f",","," ","i","t","e","m",","," ","/",")">>,
      (* 48: (self, iterable_of_ints, /) *)
      <<"(","s","e","l","f",","," ","i","t","e","r","a","b","l","e","_","o","f","_","i","n","t","s",",",
        " ","/",")">>,
      (* 49: (self, index, item, /) *)
      <<"(","s","e","l","f",","," ","i","n","d","e","x",","," ","i","t","e","m",","," ","/",")">>,
      (* 50: (self, /, order='C') *)
      <<"(","s","e","l","f",","," ","/",","," ","o","r","d","e","r","=","'","C","'",")">>,
      (* 51: (self, instance, /) *)
      <<"(","s","e","l","f",","," ","i","n","s","t","a","n","c","e",","," ","/",")">>,
      (* 52: (self, subclass, /) *)
      <<"(","s","e","l","f",","," ","s","u","b","c","l","a","s","s",","," ","/",")">>
    >>

(* The distinct texts inspect.getdoc(attr) yields over the same attributes.  *)
(* A grave accent in a text is written as its code point, "U+0060".         *)
doc_texts ==
    <<
      (* 1: Return self+value. *)
      <<"R","e","t","u","r","n"," ","s","e","l","f","+","v","a","l","u","e",".">>,
      (* 2: The base class of the class hierarchy. *)
      <<"T","h","e"," ","b","a","s","e"," ","c","l","a","s","s"," ","o","f"," ","t","h","e"," ","c","l",
        "a","s","s"," ","h","i","e","r","a","r","c","h","y",".","\n","\n","W","h","e","n"," ","c",
        "a","l","l","e","d",","," ","i","t"," ","a","c","c","e","p","t","s"," ","n","o"," ","a","r",
        "g","u","m","e","n","t","s"," ","a","n","d"," ","r","e","t","u","r","n","s"," ","a"," ","n",
        "e","w"," ","f","e","a","t","u","r","e","l","e","s","s","\n","i","n","s","t","a","n","c",
        "e"," ","t","h","a","t"," ","h","a","s"," ","n","o"," ","i","n","s","t","a","n","c","e"," ",
        "a","t","t","r","i","b","u","t","e","s"," ","a","n","d"," ","c","a","n","n","o","t"," ","b",
        "e"," ","g","i","v","e","n"," ","a","n","y",".">>,
      (* 3: Built-in immutable sequence. *)
      <<"B","u","i","l","t","-","i","n"," ","i","m","m","u","t","a","b","l","e"," ","s","e","q","u","e",
        "n","c","e",".","\n","\n","I","f"," ","n","o"," ","a","r","g","u","m","e","n","t"," ","i",
        "s"," ","g","i","v","e","n",","," ","t","h","e"," ","c","o","n","s","t","r","u","c","t","o",
        "r"," ","r","e","t","u","r","n","s"," ","a","n"," ","e","m","p","t","y"," ","t","u","p","l",
        "e",".","\n","I","f"," ","i","t","e","r","a","b","l","e"," ","i","s"," ","s","p","e","c",
        "i","f","i","e","d"," ","t","h","e"," ","t","u","p","l","e"," ","i","s"," ","i","n","i","t",
        "i","a","l","i","z","e","d"," ","f","r","o","m"," ","i","t","e","r","a","b","l","e","'","s",
        " ","i","t","e","m","s",".","\n","\n","I","f"," ","t","h","e"," ","a","r","g","u","m","e",
        "n","t"," ","i","s"," ","a"," ","t","u","p","l","e",","," ","t","h","e"," ","r","e","t","u",
        "r","n"," ","v","a","l","u","e"," ","i","s"," ","t","h","e"," ","s","a","m","e"," ","o","b",
        "j","e","c","t",".">>,
      (* 4: int([x]) -> integer *)
      <<"i","n","t","(","[","x","]",")"," ","-",">"," ","i","n","t","e","g","e","r","\n","i","n","t","(",
        "x",","," ","b","a","s","e","=","1","0",")"," ","-",">"," ","i","n","t","e","g","e","r",
        "\n","\n","C","o","n","v","e","r","t"," ","a"," ","n","u","m","b","e","r"," ","o","r"," ",
        "s","t","r","i","n","g"," ","t","o"," ","a","n"," ","i","n","t","e","g","e","r",","," ","o",
        "r"," ","r","e","t","u","r","n"," ","0"," ","i","f"," ","n","o"," ","a","r","g","u","m","e",
        "n","t","s","\n","a","r","e"," ","g","i","v","e","n","."," "," ","I","f"," ","x"," ","i",
        "s"," ","a"," ","n","u","m","b","e","r",","," ","r","e","t","u","r","n"," ","x",".","_","_",
        "i","n","t","_","_","(",")","."," "," ","F","o","r"," ","f","l","o","a","t","i","n","g"," ",
        "p","o","i","n","t","\n","n","u","m","b","e","r","s",","," ","t","h","i","s"," ","t","r",
        "u","n","c","a","t","e","s"," ","t","o","w","a","r","d","s"," ","z","e","r","o",".","\n",
        "\n","I","f"," ","x"," ","i","s"," ","n","o","t"," ","a"," ","n","u","m","b","e","r"," ",
        "o","r"," ","i","f"," ","b","a","s","e"," ","i","s"," ","g","i","v","e","n",","," ","t","h",
        "e","n"," ","x"," ","m","u","s","t"," ","b","e"," ","a"," ","s","t","r","i","n","g",",",
        "\n","b","y","t","e","s",","," ","o","r"," ","b","y","t","e","a","r","r","a","y"," ","i",
        "n","s","t","a","n","c","e"," ","r","e","p","r","e","s","e","n","t","i","n","g"," ","a","n",
        " ","i","n","t","e","g","e","r"," ","l","i","t","e","r","a","l"," ","i","n"," ","t","h","e",
        "\n","g","i","v","e","n"," ","b","a","s","e","."," "," ","T","h","e"," ","l","i","t","e",
        "r","a","l"," ","c","a","n"," ","b","e"," ","p","r","e","c","e","d","e","d"," ","b","y"," ",
        "'","+","'"," ","o","r"," ","'","-","'"," ","a","n","d"," ","b","e"," ","s","u","r","r","o",
        "u","n","d","e","d","\n","b","y"," ","w","h","i","t","e","s","p","a","c","e","."," "," ",
        "T","h","e"," ","b","a","s","e"," ","d","e","f","a","u","l","t","s"," ","t","o"," ","1","0",
        "."," "," ","V","a","l","i","d"," ","b","a","s","e","s"," ","a","r","e"," ","0"," ","a","n",
        "d"," ","2","-","3","6",".","\n","B","a","s","e"," ","0"," ","m","e","a","n","s"," ","t",
        "o"," ","i","n","t","e","r","p","r","e","t"," ","t","h","e"," ","b","a","s","e"," ","f","r",
        "o","m"," ","t","h","e"," ","s","t","r","i","n","g"," ","a","s"," ","a","n"," ","i","n","t",
        "e","g","e","r"," ","l","i","t","e","r","a","l",".","\n",">",">",">"," ","i","n","t","(",
        "'","0","b","1","0","0","'",","," ","b","a","s","e","=","0",")","\n","4">>,
      (* 5: Call self as a function. *)
      <<"C","a","l","l"," ","s","e","l","f"," ","a","s"," ","a"," ","f","u","n","c","t","i","o","n",".">>,
      (* 6: type(object) -> the object's type *)
      <<"t","y","p","e","(","o","b","j","e","c","t",")"," ","-",">"," ","t","h","e"," ","o","b","j","e",
        "c","t","'","s"," ","t","y","p","e","\n","t","y","p","e","(","n","a","m","e",","," ","b",
        "a","s","e","s",","," ","d","i","c","t",","," ","*","*","k","w","d","s",")"," ","-",">"," ",
        "a"," ","n","e","w"," ","t","y","p","e">>,
      (* 7: Return key in self. *)
      <<"R","e","t","u","r","n"," ","k","e","y"," ","i","n"," ","s","e","l","f",".">>,
      (* 8: Implement delattr(self, name). *)
      <<"I","m","p","l","e","m","e","n","t"," ","d","e","l","a","t","t","r","(","s","e","l","f",","," ",
        "n","a","m","e",")",".">>,
      (* 9: Default dir() implementation. *)
      <<"D","e","f","a","u","l","t"," ","d","i","r","(",")"," ","i","m","p","l","e","m","e","n","t","a",
        "t","i","o","n",".">>,
      (* 10: str(object='') -> str *)
      <<"s","t","r","(","o","b","j","e","c","t","=","'","'",")"," ","-",">"," ","s","t","r","\n","s","t",
        "r","(","b","y","t","e","s","_","o","r","_","b","u","f","f","e","r","[",","," ","e","n","c",
        "o","d","i","n","g","[",","," ","e","r","r","o","r","s","]","]",")"," ","-",">"," ","s","t",
        "r","\n","\n","C","r","e","a","t","e"," ","a"," ","n","e","w"," ","s","t","r","i","n","g",
        " ","o","b","j","e","c","t"," ","f","r","o","m"," ","t","h","e"," ","g","i","v","e","n"," ",
        "o","b","j","e","c","t","."," ","I","f"," ","e","n","c","o","d","i","n","g"," ","o","r",
        "\n","e","r","r","o","r","s"," ","i","s"," ","s","p","e","c","i","f","i","e","d",","," ",
        "t","h","e","n"," ","t","h","e"," ","o","b","j","e","c","t"," ","m","u","s","t"," ","e","x",
        "p","o","s","e"," ","a"," ","d","a","t","a"," ","b","u","f","f","e","r","\n","t","h","a",
        "t"," ","w","i","l","l"," ","b","e"," ","d","e","c","o","d","e","d"," ","u","s","i","n","g",
        " ","t","h","e"," ","g","i","v","e","n"," ","e","n","c","o","d","i","n","g"," ","a","n","d",
        " ","e","r","r","o","r"," ","h","a","n","d","l","e","r",".","\n","O","t","h","e","r","w",
        "i","s","e",","," ","r","e","t","u","r","n","s"," ","t","h","e"," ","r","e","s","u","l","t",
        " ","o","f"," ","o","b","j","e","c","t",".","_","_","s","t","r","_","_","(",")"," ","(","i",
        "f"," ","d","e","f","i","n","e","d",")","\n","o","r"," ","r","e","p","r","(","o","b","j",
        "e","c","t",")",".","\n","e","n","c","o","d","i","n","g"," ","d","e","f","a","u","l","t",
        "s"," ","t","o"," ","s","y","s",".","g","e","t","d","e","f","a","u","l","t","e","n","c","o",
        "d","i","n","g","(",")",".","\n","e","r","r","o","r","s"," ","d","e","f","a","u","l","t",
        "s"," ","t","o"," ","'","s","t","r","i","c","t","'",".">>,
      (* 11: Return self==value. *)
      <<"R","e","t","u","r","n"," ","s","e","l","f","=","=","v","a","l","u","e",".">>,
      (* 12: Return a formatted version of the string as described by format_spec. *)
      <<"R","e","t","u","r","n"," ","a"," ","f","o","r","m","a","t","t","e","d"," ","v","e","r","s","i",
        "o","n"," ","o","f"," ","t","h","e"," ","s","t","r","i","n","g"," ","a","s"," ","d","e","s",
        "c","r","i","b","e","d"," ","b","y"," ","f","o","r","m","a","t","_","s","p","e","c",".">>,
      (* 13: Return self>=value. *)
      <<"R","e","t","u","r","n"," ","s","e","l","f",">","=","v","a","l","u","e",".">>,
      (* 14: Return getattr(self, name). *)
      <<"R","e","t","u","r","n"," ","g","e","t","a","t","t","r","(","s","e","l","f",","," ","n","a","m",
        "e",")",".">>,
      (* 15: Return self[key]. *)
      <<"R","e","t","u","r","n"," ","s","e","l","f","[","k","e","y","]",".">>,
      (* 16: Helper for pickle. *)
      <<"H","e","l","p","e","r"," ","f","o","r"," ","p","i","c","k","l","e",".">>,
      (* 17: Return self>value. *)
      <<"R","e","t","u","r","n"," ","s","e","l","f",">","v","a","l","u","e",".">>,
      (* 18: Return hash(self). *)
      <<"R","e","t","u","r","n"," ","h","a","s","h","(","s","e","l","f",")",".">>,
      (* 19: Initialize self.  See help(type(self)) for accurate signature. *)
      <<"I","n","i","t","i","a","l","i","z","e"," ","s","e","l","f","."," "," ","S","e","e"," ","h","e",
        "l","p","(","t","y","p","e","(","s","e","l","f",")",")"," ","f","o","r"," ","a","c","c","u",
        "r","a","t","e"," ","s","i","g","n","a","t","u","r","e",".">>,
      (* 20: This method is called when a class is subclassed. *)
      <<"T","h","i","s"," ","m","e","t","h","o","d"," ","i","s"," ","c","a","l","l","e","d"," ","w","h",
        "e","n"," ","a"," ","c","l","a","s","s"," ","i","s"," ","s","u","b","c","l","a","s","s","e",
        "d",".","\n","\n","T","h","e"," ","d","e","f","a","u","l","t"," ","i","m","p","l","e","m",
        "e","n","t","a","t","i","o","n"," ","d","o","e","s"," ","n","o","t","h","i","n","g","."," ",
        "I","t"," ","m","a","y"," ","b","e","\n","o","v","e","r","r","i","d","d","e","n"," ","t",
        "o"," ","e","x","t","e","n","d"," ","s","u","b","c","l","a","s","s","e","s",".">>,
      (* 21: Check if an object is an instance. *)
      <<"C","h","e","c","k"," ","i","f"," ","a","n"," ","o","b","j","e","c","t"," ","i","s"," ","a","n",
        " ","i","n","s","t","a","n","c","e",".">>,
      (* 22: Implement iter(self). *)
      <<"I","m","p","l","e","m","e","n","t"," ","i","t","e","r","(","s","e","l","f",")",".">>,
      (* 23: Return self<=value. *)
      <<"R","e","t","u","r","n"," ","s","e","l","f","<","=","v","a","l","u","e",".">>,
      (* 24: Return len(self). *)
      <<"R","e","t","u","r","n"," ","l","e","n","(","s","e","l","f",")",".">>,
      (* 25: Return self<value. *)
      <<"R","e","t","u","r","n"," ","s","e","l","f","<","v","a","l","u","e",".">>,
      (* 26: Return self%value. *)
      <<"R","e","t","u","r","n"," ","s","e","l","f","%","v","a","l","u","e",".">>,
      (* 27: Return self*value. *)
      <<"R","e","t","u","r","n"," ","s","e","l","f","*","v","a","l","u","e",".">>,
      (* 28: Return self!=value. *)
      <<"R","e","t","u","r","n"," ","s","e","l","f","!","=","v","a","l","u","e",".">>,
      (* 29: Create and return a new object.  See help(type) for accurate signature *)
      <<"C","r","e","a","t","e"," ","a","n","d"," ","r","e","t","u","r","n"," ","a"," ","n","e","w"," ",
        "o","b","j","e","c","t","."," "," ","S","e","e"," ","h","e","l","p","(","t","y","p","e",")",
        " ","f","o","r"," ","a","c","c","u","r","a","t","e"," ","s","i","g","n","a","t","u","r","e",
        ".">>,
      (* 30: Return self|value. *)
      <<"R","e","t","u","r","n"," ","s","e","l","f","|","v","a","l","u","e",".">>,
      (* 31: __prepare__() -> dict *)
      <<"_","_","p","r","e","p","a","r","e","_","_","(",")"," ","-",">"," ","d","i","c","t","\n","u","s",
        "e","d"," ","t","o"," ","c","r","e","a","t","e"," ","t","h","e"," ","n","a","m","e","s","p",
        "a","c","e"," ","f","o","r"," ","t","h","e"," ","c","l","a","s","s"," ","s","t","a","t","e",
        "m","e","n","t">>,
      (* 32: Return repr(self). *)
      <<"R","e","t","u","r","n"," ","r","e","p","r","(","s","e","l","f",")",".">>,
      (* 33: Return value%self. *)
      <<"R","e","t","u","r","n"," ","v","a","l","u","e","%","s","e","l","f",".">>,
      (* 34: Return value*self. *)
      <<"R","e","t","u","r","n"," ","v","a","l","u","e","*","s","e","l","f",".">>,
      (* 35: Return value|self. *)
      <<"R","e","t","u","r","n"," ","v","a","l","u","e","|","s","e","l","f",".">>,
      (* 36: Implement setattr(self, name, value). *)
      <<"I","m","p","l","e","m","e","n","t"," ","s","e","t","a","t","t","r","(","s","e","l","f",","," ",
        "n","a","m","e",","," ","v","a","l","u","e",")",".">>,
      (* 37: Return the size of the string in memory, in bytes. *)
      <<"R","e","t","u","r","n"," ","t","h","e"," ","s","i","z","e"," ","o","f"," ","t","h","e"," ","s",
        "t","r","i","n","g"," ","i","n"," ","m","e","m","o","r","y",","," ","i","n"," ","b","y","t",
        "e","s",".">>,
      (* 38: Return str(self). *)
      <<"R","e","t","u","r","n"," ","s","t","r","(","s","e","l","f",")",".">>,
      (* 39: Check if a class is a subclass. *)
      <<"C","h","e","c","k"," ","i","f"," ","a"," ","c","l","a","s","s"," ","i","s"," ","a"," ","s","u",
        "b","c","l","a","s","s",".">>,
      (* 40: Return a list of immediate subclasses. *)
      <<"R","e","t","u","r","n"," ","a"," ","l","i","s","t"," ","o","f"," ","i","m","m","e","d","i","a",
        "t","e"," ","s","u","b","c","l","a","s","s","e","s",".">>,
      (* 41: Abstract classes can override this to customize issubclass(). *)
      <<"A","b","s","t","r","a","c","t"," ","c","l","a","s","s","e","s"," ","c","a","n"," ","o","v","e",
        "r","r","i","d","e"," ","t","h","i","s"," ","t","o"," ","c","u","s","t","o","m","i","z","e",
        " ","i","s","s","u","b","c","l","a","s","s","(",")",".","\n","\n","T","h","i","s"," ","i",
        "s"," ","i","n","v","o","k","e","d"," ","e","a","r","l","y"," ","o","n"," ","b","y"," ","a",
        "b","c",".","A","B","C","M","e","t","a",".","_","_","s","u","b","c","l","a","s","s","c","h",
        "e","c","k","_","_","(",")",".","\n","I","t"," ","s","h","o","u","l","d"," ","r","e","t",
        "u","r","n"," ","T","r","u","e",","," ","F","a","l","s","e"," ","o","r"," ","N","o","t","I",
        "m","p","l","e","m","e","n","t","e","d","."," "," ","I","f"," ","i","t"," ","r","e","t","u",
        "r","n","s","\n","N","o","t","I","m","p","l","e","m","e","n","t","e","d",","," ","t","h",
        "e"," ","n","o","r","m","a","l"," ","a","l","g","o","r","i","t","h","m"," ","i","s"," ","u",
        "s","e","d","."," "," ","O","t","h","e","r","w","i","s","e",","," ","i","t","\n","o","v",
        "e","r","r","i","d","e","s"," ","t","h","e"," ","n","o","r","m","a","l"," ","a","l","g","o",
        "r","i","t","h","m"," ","(","a","n","d"," ","t","h","e"," ","o","u","t","c","o","m","e"," ",
        "i","s"," ","c","a","c","h","e","d",")",".">>,
      (* 42: Return a capitalized version of the string. *)
      <<"R","e","t","u","r","n"," ","a"," ","c","a","p","i","t","a","l","i","z","e","d"," ","v","e","r",
        "s","i","o","n"," ","o","f"," ","t","h","e"," ","s","t","r","i","n","g",".","\n","\n","M",
        "o","r","e"," ","s","p","e","c","i","f","i","c","a","l","l","y",","," ","m","a","k","e"," ",
        "t","h","e"," ","f","i","r","s","t"," ","c","h","a","r","a","c","t","e","r"," ","h","a","v",
        "e"," ","u","p","p","e","r"," ","c","a","s","e"," ","a","n","d"," ","t","h","e"," ","r","e",
        "s","t"," ","l","o","w","e","r","\n","c","a","s","e",".">>,
      (* 43: Return a version of the string suitable for caseless comparisons. *)
      <<"R","e","t","u","r","n"," ","a"," ","v","e","r","s","i","o","n"," ","o","f"," ","t","h","e"," ",
        "s","t","r","i","n","g"," ","s","u","i","t","a","b","l","e"," ","f","o","r"," ","c","a","s",
        "e","l","e","s","s"," ","c","o","m","p","a","r","i","s","o","n","s",".">>,
      (* 44: Return a centered string of length width. *)
      <<"R","e","t","u","r","n"," ","a"," ","c","e","n","t","e","r","e","d"," ","s","t","r","i","n","g",
        " ","o","f"," ","l","e","n","g","t","h"," ","w","i","d","t","h",".","\n","\n","P","a","d",
        "d","i","n","g"," ","i","s"," ","d","o","n","e"," ","u","s","i","n","g"," ","t","h","e"," ",
        "s","p","e","c","i","f","i","e","d"," ","f","i","l","l"," ","c","h","a","r","a","c","t","e",
        "r"," ","(","d","e","f","a","u","l","t"," ","i","s"," ","a"," ","s","p","a","c","e",")","."
        >>,
      (* 45: S.count(sub[, start[, end]]) -> int *)
      <<"S",".","c","o","u","n","t","(","s","u","b","[",","," ","s","t","a","r","t","[",","," ","e","n",
        "d","]","]",")"," ","-",">"," ","i","n","t","\n","\n","R","e","t","u","r","n"," ","t","h",
        "e"," ","n","u","m","b","e","r"," ","o","f"," ","n","o","n","-","o","v","e","r","l","a","p",
        "p","i","n","g"," ","o","c","c","u","r","r","e","n","c","e","s"," ","o","f"," ","s","u","b",
        "s","t","r","i","n","g"," ","s","u","b"," ","i","n","\n","s","t","r","i","n","g"," ","S",
        "[","s","t","a","r","t",":","e","n","d","]","."," "," ","O","p","t","i","o","n","a","l"," ",
        "a","r","g","u","m","e","n","t","s"," ","s","t","a","r","t"," ","a","n","d"," ","e","n","d",
        " ","a","r","e","\n","i","n","t","e","r","p","r","e","t","e","d"," ","a","s"," ","i","n",
        " ","s","l","i","c","e"," ","n","o","t","a","t","i","o","n",".">>,
      (* 46: Encode the string using the codec registered for encoding. *)
      <<"E","n","c","o","d","e"," ","t","h","e"," ","s","t","r","i","n","g"," ","u","s","i","n","g"," ",
        "t","h","e"," ","c","o","d","e","c"," ","r","e","g","i","s","t","e","r","e","d"," ","f","o",
        "r"," ","e","n","c","o","d","i","n","g",".","\n","\n","e","n","c","o","d","i","n","g","\n",
        " "," ","T","h","e"," ","e","n","c","o","d","i","n","g"," ","i","n"," ","w","h","i","c","h",
        " ","t","o"," ","e","n","c","o","d","e"," ","t","h","e"," ","s","t","r","i","n","g",".",
        "\n","e","r","r","o","r","s","\n"," "," ","T","h","e"," ","e","r","r","o","r"," ","h","a",
        "n","d","l","i","n","g"," ","s","c","h","e","m","e"," ","t","o"," ","u","s","e"," ","f","o",
        "r"," ","e","n","c","o","d","i","n","g"," ","e","r","r","o","r","s",".","\n"," "," ","T",
        "h","e"," ","d","e","f","a","u","l","t"," ","i","s"," ","'","s","t","r","i","c","t","'"," ",
        "m","e","a","n","i","n","g"," ","t","h","a","t"," ","e","n","c","o","d","i","n","g"," ","e",
        "r","r","o","r","s"," ","r","a","i","s","e"," ","a","\n"," "," ","U","n","i","c","o","d",
        "e","E","n","c","o","d","e","E","r","r","o","r","."," "," ","O","t","h","e","r"," ","p","o",
        "s","s","i","b","l","e"," ","v","a","l","u","e","s"," ","a","r","e"," ","'","i","g","n","o",
        "r","e","'",","," ","'","r","e","p","l","a","c","e","'"," ","a","n","d","\n"," "," ","'",
        "x","m","l","c","h","a","r","r","e","f","r","e","p","l","a","c","e","'"," ","a","s"," ","w",
        "e","l","l"," ","a","s"," ","a","n","y"," ","o","t","h","e","r"," ","n","a","m","e"," ","r",
        "e","g","i","s","t","e","r","e","d"," ","w","i","t","h","\n"," "," ","c","o","d","e","c",
        "s",".","r","e","g","i","s","t","e","r","_","e","r","r","o","r"," ","t","h","a","t"," ","c",
        "a","n"," ","h","a","n","d","l","e"," ","U","n","i","c","o","d","e","E","n","c","o","d","e",
        "E","r","r","o","r","s",".">>,
      (* 47: S.endswith(suffix[, start[, end]]) -> bool *)
      <<"S",".","e","n","d","s","w","i","t","h","(","s","u","f","f","i","x","[",","," ","s","t","a","r",
        "t","[",","," ","e","n","d","]","]",")"," ","-",">"," ","b","o","o","l","\n","\n","R","e",
        "t","u","r","n"," ","T","r","u","e"," ","i","f"," ","S"," ","e","n","d","s"," ","w","i","t",
        "h"," ","t","h","e"," ","s","p","e","c","i","f","i","e","d"," ","s","u","f","f","i","x",",",
        " ","F","a","l","s","e"," ","o","t","h","e","r","w","i","s","e",".","\n","W","i","t","h",
        " ","o","p","t","i","o","n","a","l"," ","s","t","a","r","t",","," ","t","e","s","t"," ","S",
        " ","b","e","g","i","n","n","i","n","g"," ","a","t"," ","t","h","a","t"," ","p","o","s","i",
        "t","i","o","n",".","\n","W","i","t","h"," ","o","p","t","i","o","n","a","l"," ","e","n",
        "d",","," ","s","t","o","p"," ","c","o","m","p","a","r","i","n","g"," ","S"," ","a","t"," ",
        "t","h","a","t"," ","p","o","s","i","t","i","o","n",".","\n","s","u","f","f","i","x"," ",
        "c","a","n"," ","a","l","s","o"," ","b","e"," ","a"," ","t","u","p","l","e"," ","o","f"," ",
        "s","t","r","i","n","g","s"," ","t","o"," ","t","r","y",".">>,
      (* 48: Return a copy where all tab characters are expanded using spaces. *)
      <<"R","e","t","u","r","n"," ","a"," ","c","o","p","y"," ","w","h","e","r","e"," ","a","l","l"," ",
        "t","a","b"," ","c","h","a","r","a","c","t","e","r","s"," ","a","r","e"," ","e","x","p","a",
        "n","d","e","d"," ","u","s","i","n","g"," ","s","p","a","c","e","s",".","\n","\n","I","f",
        " ","t","a","b","s","i","z","e"," ","i","s"," ","n","o","t"," ","g","i","v","e","n",","," ",
        "a"," ","t","a","b"," ","s","i","z","e"," ","o","f"," ","8"," ","c","h","a","r","a","c","t",
        "e","r","s"," ","i","s"," ","a","s","s","u","m","e","d",".">>,
      (* 49: S.find(sub[, start[, end]]) -> int *)
      <<"S",".","f","i","n","d","(","s","u","b","[",","," ","s","t","a","r","t","[",","," ","e","n","d",
        "]","]",")"," ","-",">"," ","i","n","t","\n","\n","R","e","t","u","r","n"," ","t","h","e",
        " ","l","o","w","e","s","t"," ","i","n","d","e","x"," ","i","n"," ","S"," ","w","h","e","r",
        "e"," ","s","u","b","s","t","r","i","n","g"," ","s","u","b"," ","i","s"," ","f","o","u","n",
        "d",",","\n","s","u","c","h"," ","t","h","a","t"," ","s","u","b"," ","i","s"," ","c","o",
        "n","t","a","i","n","e","d"," ","w","i","t","h","i","n"," ","S","[","s","t","a","r","t",":",
        "e","n","d","]","."," "," ","O","p","t","i","o","n","a","l","\n","a","r","g","u","m","e",
        "n","t","s"," ","s","t","a","r","t"," ","a","n","d"," ","e","n","d"," ","a","r","e"," ","i",
        "n","t","e","r","p","r","e","t","e","d"," ","a","s"," ","i","n"," ","s","l","i","c","e"," ",
        "n","o","t","a","t","i","o","n",".","\n","\n","R","e","t","u","r","n"," ","-","1"," ","o",
        "n"," ","f","a","i","l","u","r","e",".">>,
      (* 50: S.format( *args, **kwargs) -> str *)
      <<"S",".","f","o","r","m","a","t","(","*","a","r","g","s",","," ","*","*","k","w","a","r","g","s",
        ")"," ","-",">"," ","s","t","r","\n","\n","R","e","t","u","r","n"," ","a"," ","f","o","r",
        "m","a","t","t","e","d"," ","v","e","r","s","i","o","n"," ","o","f"," ","S",","," ","u","s",
        "i","n","g"," ","s","u","b","s","t","i","t","u","t","i","o","n","s"," ","f","r","o","m"," ",
        "a","r","g","s"," ","a","n","d"," ","k","w","a","r","g","s",".","\n","T","h","e"," ","s",
        "u","b","s","t","i","t","u","t","i","o","n","s"," ","a","r","e"," ","i","d","e","n","t","i",
        "f","i","e","d"," ","b","y"," ","b","r","a","c","e","s"," ","(","'","{","'"," ","a","n","d",
        " ","'","}","'",")",".">>,
      (* 51: S.format_map(mapping) -> str *)
      <<"S",".","f","o","r","m","a","t","_","m","a","p","(","m","a","p","p","i","n","g",")"," ","-",">",
        " ","s","t","r","\n","\n","R","e","t","u","r","n"," ","a"," ","f","o","r","m","a","t","t",
        "e","d"," ","v","e","r","s","i","o","n"," ","o","f"," ","S",","," ","u","s","i","n","g"," ",
        "s","u","b","s","t","i","t","u","t","i","o","n","s"," ","f","r","o","m"," ","m","a","p","p",
        "i","n","g",".","\n","T","h","e"," ","s","u","b","s","t","i","t","u","t","i","o","n","s",
        " ","a","r","e"," ","i","d","e","n","t","i","f","i","e","d"," ","b","y"," ","b","r","a","c",
        "e","s"," ","(","'","{","'"," ","a","n","d"," ","'","}","'",")",".">>,
      (* 52: S.index(sub[, start[, end]]) -> int *)
      <<"S",".","i","n","d","e","x","(","s","u","b","[",","," ","s","t","a","r","t","[",","," ","e","n",
        "d","]","]",")"," ","-",">"," ","i","n","t","\n","\n","R","e","t","u","r","n"," ","t","h",
        "e"," ","l","o","w","e","s","t"," ","i","n","d","e","x"," ","i","n"," ","S"," ","w","h","e",
        "r","e"," ","s","u","b","s","t","r","i","n","g"," ","s","u","b"," ","i","s"," ","f","o","u",
        "n","d",",","\n","s","u","c","h"," ","t","h","a","t"," ","s","u","b"," ","i","s"," ","c",
        "o","n","t","a","i","n","e","d"," ","w","i","t","h","i","n"," ","S","[","s","t","a","r","t",
        ":","e","n","d","]","."," "," ","O","p","t","i","o","n","a","l","\n","a","r","g","u","m",
        "e","n","t","s"," ","s","t","a","r","t"," ","a","n","d"," ","e","n","d"," ","a","r","e"," ",
        "i","n","t","e","r","p","r","e","t","e","d"," ","a","s"," ","i","n"," ","s","l","i","c","e",
        " ","n","o","t","a","t","i","o","n",".","\n","\n","R","a","i","s","e","s"," ","V","a","l",
        "u","e","E","r","r","o","r"," ","w","h","e","n"," ","t","h","e"," ","s","u","b","s","t","r",
        "i","n","g"," ","i","s"," ","n","o","t"," ","f","o","u","n","d",".">>,
      (* 53: Return True if the string is an alpha-numeric string, False otherwise. *)
      <<"R","e","t","u","r","n"," ","T","r","u","e"," ","i","f"," ","t","h","e"," ","s","t","r","i","n",
        "g"," ","i","s"," ","a","n"," ","a","l","p","h","a","-","n","u","m","e","r","i","c"," ","s",
        "t","r","i","n","g",","," ","F","a","l","s","e"," ","o","t","h","e","r","w","i","s","e",".",
        "\n","\n","A"," ","s","t","r","i","n","g"," ","i","s"," ","a","l","p","h","a","-","n","u",
        "m","e","r","i","c"," ","i","f"," ","a","l","l"," ","c","h","a","r","a","c","t","e","r","s",
        " ","i","n"," ","t","h","e"," ","s","t","r","i","n","g"," ","a","r","e"," ","a","l","p","h",
        "a","-","n","u","m","e","r","i","c"," ","a","n","d","\n","t","h","e","r","e"," ","i","s",
        " ","a","t"," ","l","e","a","s","t"," ","o","n","e"," ","c","h","a","r","a","c","t","e","r",
        " ","i","n"," ","t","h","e"," ","s","t","r","i","n","g",".">>,
      (* 54: Return True if the string is an alphabetic string, False otherwise. *)
      <<"R","e","t","u","r","n"," ","T","r","u","e"," ","i","f"," ","t","h","e"," ","s","t","r","i","n",
        "g"," ","i","s"," ","a","n"," ","a","l","p","h","a","b","e","t","i","c"," ","s","t","r","i",
        "n","g",","," ","F","a","l","s","e"," ","o","t","h","e","r","w","i","s","e",".","\n","\n",
        "A"," ","s","t","r","i","n","g"," ","i","s"," ","a","l","p","h","a","b","e","t","i","c"," ",
        "i","f"," ","a","l","l"," ","c","h","a","r","a","c","t","e","r","s"," ","i","n"," ","t","h",
        "e"," ","s","t","r","i","n","g"," ","a","r","e"," ","a","l","p","h","a","b","e","t","i","c",
        " ","a","n","d"," ","t","h","e","r","e","\n","i","s"," ","a","t"," ","l","e","a","s","t",
        " ","o","n","e"," ","c","h","a","r","a","c","t","e","r"," ","i","n"," ","t","h","e"," ","s",
        "t","r","i","n","g",".">>,
      (* 55: Return True if all characters in the string are ASCII, False otherwise *)
      <<"R","e","t","u","r","n"," ","T","r","u","e"," ","i","f"," ","a","l","l"," ","c","h","a","r","a",
        "c","t","e","r","s"," ","i","n"," ","t","h","e"," ","s","t","r","i","n","g"," ","a","r","e",
        " ","A","S","C","I","I",","," ","F","a","l","s","e"," ","o","t","h","e","r","w","i","s","e",
        ".","\n","\n","A","S","C","I","I"," ","c","h","a","r","a","c","t","e","r","s"," ","h","a",
        "v","e"," ","c","o","d","e"," ","p","o","i","n","t","s"," ","i","n"," ","t","h","e"," ","r",
        "a","n","g","e"," ","U","+","0","0","0","0","-","U","+","0","0","7","F",".","\n","E","m",
        "p","t","y"," ","s","t","r","i","n","g"," ","i","s"," ","A","S","C","I","I"," ","t","o","o",
        ".">>,
      (* 56: Return True if the string is a decimal string, False otherwise. *)
      <<"R","e","t","u","r","n"," ","T","r","u","e"," ","i","f"," ","t","h","e"," ","s","t","r","i","n",
        "g"," ","i","s"," ","a"," ","d","e","c","i","m","a","l"," ","s","t","r","i","n","g",","," ",
        "F","a","l","s","e"," ","o","t","h","e","r","w","i","s","e",".","\n","\n","A"," ","s","t",
        "r","i","n","g"," ","i","s"," ","a"," ","d","e","c","i","m","a","l"," ","s","t","r","i","n",
        "g"," ","i","f"," ","a","l","l"," ","c","h","a","r","a","c","t","e","r","s"," ","i","n"," ",
        "t","h","e"," ","s","t","r","i","n","g"," ","a","r","e"," ","d","e","c","i","m","a","l"," ",
        "a","n","d","\n","t","h","e","r","e"," ","i","s"," ","a","t"," ","l","e","a","s","t"," ",
        "o","n","e"," ","c","h","a","r","a","c","t","e","r"," ","i","n"," ","t","h","e"," ","s","t",
        "r","i","n","g",".">>,
      (* 57: Return True if the string is a digit string, False otherwise. *)
      <<"R","e","t","u","r","n"," ","T","r","u","e"," ","i","f"," ","t","h","e"," ","s","t","r","i","n",
        "g"," ","i","s"," ","a"," ","d","i","g","i","t"," ","s","t","r","i","n","g",","," ","F","a",
        "l","s","e"," ","o","t","h","e","r","w","i","s","e",".","\n","\n","A"," ","s","t","r","i",
        "n","g"," ","i","s"," ","a"," ","d","i","g","i","t"," ","s","t","r","i","n","g"," ","i","f",
        " ","a","l","l"," ","c","h","a","r","a","c","t","e","r","s"," ","i","n"," ","t","h","e"," ",
        "s","t","r","i","n","g"," ","a","r","e"," ","d","i","g","i","t","s"," ","a","n","d"," ","t",
        "h","e","r","e","\n","i","s"," ","a","t"," ","l","e","a","s","t"," ","o","n","e"," ","c",
        "h","a","r","a","c","t","e","r"," ","i","n"," ","t","h","e"," ","s","t","r","i","n","g","."
        >>,
      (* 58: Return True if the string is a valid Python identifier, False otherwis *)
      <<"R","e","t","u","r","n"," ","T","r","u","e"," ","i","f"," ","t","h","e"," ","s","t","r","i","n",
        "g"," ","i","s"," ","a"," ","v","a","l","i","d"," ","P","y","t","h","o","n"," ","i","d","e",
        "n","t","i","f","i","e","r",","," ","F","a","l","s","e"," ","o","t","h","e","r","w","i","s",
        "e",".","\n","\n","C","a","l","l"," ","k","e","y","w","o","r","d",".","i","s","k","e","y",
        "w","o","r","d","(","s",")"," ","t","o"," ","t","e","s","t"," ","w","h","e","t","h","e","r",
        " ","s","t","r","i","n","g"," ","s"," ","i","s"," ","a"," ","r","e","s","e","r","v","e","d",
        " ","i","d","e","n","t","i","f","i","e","r",",","\n","s","u","c","h"," ","a","s"," ","\"",
        "d","e","f","\""," ","o","r"," ","\"","c","l","a","s","s","\"",".">>,
      (* 59: Return True if the string is a lowercase string, False otherwise. *)
      <<"R","e","t","u","r","n"," ","T","r","u","e"," ","i","f"," ","t","h","e"," ","s","t","r","i","n",
        "g"," ","i","s"," ","a"," ","l","o","w","e","r","c","a","s","e"," ","s","t","r","i","n","g",
        ","," ","F","a","l","s","e"," ","o","t","h","e","r","w","i","s","e",".","\n","\n","A"," ",
        "s","t","r","i","n","g"," ","i","s"," ","l","o","w","e","r","c","a","s","e"," ","i","f"," ",
        "a","l","l"," ","c","a","s","e","d"," ","c","h","a","r","a","c","t","e","r","s"," ","i","n",
        " ","t","h","e"," ","s","t","r","i","n","g"," ","a","r","e"," ","l","o","w","e","r","c","a",
        "s","e"," ","a","n","d","\n","t","h","e","r","e"," ","i","s"," ","a","t"," ","l","e","a",
        "s","t"," ","o","n","e"," ","c","a","s","e","d"," ","c","h","a","r","a","c","t","e","r"," ",
        "i","n"," ","t","h","e"," ","s","t","r","i","n","g",".">>,
      (* 60: Return True if the string is a numeric string, False otherwise. *)
      <<"R","e","t","u","r","n"," ","T","r","u","e"," ","i","f"," ","t","h","e"," ","s","t","r","i","n",
        "g"," ","i","s"," ","a"," ","n","u","m","e","r","i","c"," ","s","t","r","i","n","g",","," ",
        "F","a","l","s","e"," ","o","t","h","e","r","w","i","s","e",".","\n","\n","A"," ","s","t",
        "r","i","n","g"," ","i","s"," ","n","u","m","e","r","i","c"," ","i","f"," ","a","l","l"," ",
        "c","h","a","r","a","c","t","e","r","s"," ","i","n"," ","t","h","e"," ","s","t","r","i","n",
        "g"," ","a","r","e"," ","n","u","m","e","r","i","c"," ","a","n","d"," ","t","h","e","r","e",
        " ","i","s"," ","a","t","\n","l","e","a","s","t"," ","o","n","e"," ","c","h","a","r","a",
        "c","t","e","r"," ","i","n"," ","t","h","e"," ","s","t","r","i","n","g",".">>,
      (* 61: Return True if the string is printable, False otherwise. *)
      <<"R","e","t","u","r","n"," ","T","r","u","e"," ","i","f"," ","t","h","e"," ","s","t","r","i","n",
        "g"," ","i","s"," ","p","r","i","n","t","a","b","l","e",","," ","F","a","l","s","e"," ","o",
        "t","h","e","r","w","i","s","e",".","\n","\n","A"," ","s","t","r","i","n","g"," ","i","s",
        " ","p","r","i","n","t","a","b","l","e"," ","i","f"," ","a","l","l"," ","o","f"," ","i","t",
        "s"," ","c","h","a","r","a","c","t","e","r","s"," ","a","r","e"," ","c","o","n","s","i","d",
        "e","r","e","d"," ","p","r","i","n","t","a","b","l","e"," ","i","n","\n","r","e","p","r",
        "(",")"," ","o","r"," ","i","f"," ","i","t"," ","i","s"," ","e","m","p","t","y",".">>,
      (* 62: Return True if the string is a whitespace string, False otherwise. *)
      <<"R","e","t","u","r","n"," ","T","r","u","e"," ","i","f"," ","t","h","e"," ","s","t","r","i","n",
        "g"," ","i","s"," ","a"," ","w","h","i","t","e","s","p","a","c","e"," ","s","t","r","i","n",
        "g",","," ","F","a","l","s","e"," ","o","t","h","e","r","w","i","s","e",".","\n","\n","A",
        " ","s","t","r","i","n","g"," ","i","s"," ","w","h","i","t","e","s","p","a","c","e"," ","i",
        "f"," ","a","l","l"," ","c","h","a","r","a","c","t","e","r","s"," ","i","n"," ","t","h","e",
        " ","s","t","r","i","n","g"," ","a","r","e"," ","w","h","i","t","e","s","p","a","c","e"," ",
        "a","n","d"," ","t","h","e","r","e","\n","i","s"," ","a","t"," ","l","e","a","s","t"," ",
        "o","n","e"," ","c","h","a","r","a","c","t","e","r"," ","i","n"," ","t","h","e"," ","s","t",
        "r","i","n","g",".">>,
      (* 63: Return True if the string is a title-cased string, False otherwise. *)
      <<"R","e","t","u","r","n"," ","T","r","u","e"," ","i","f"," ","t","h","e"," ","s","t","r","i","n",
        "g"," ","i","s"," ","a"," ","t","i","t","l","e","-","c","a","s","e","d"," ","s","t","r","i",
        "n","g",","," ","F","a","l","s","e"," ","o","t","h","e","r","w","i","s","e",".","\n","\n",
        "I","n"," ","a"," ","t","i","t","l","e","-","c","a","s","e","d"," ","s","t","r","i","n","g",
        ","," ","u","p","p","e","r","-"," ","a","n","d"," ","t","i","t","l","e","-","c","a","s","e",
        " ","c","h","a","r","a","c","t","e","r","s"," ","m","a","y"," ","o","n","l","y","\n","f",
        "o","l","l","o","w"," ","u","n","c","a","s","e","d"," ","c","h","a","r","a","c","t","e","r",
        "s"," ","a","n","d"," ","l","o","w","e","r","c","a","s","e"," ","c","h","a","r","a","c","t",
        "e","r","s"," ","o","n","l","y"," ","c","a","s","e","d"," ","o","n","e","s",".">>,
      (* 64: Return True if the string is an uppercase string, False otherwise. *)
      <<"R","e","t","u","r","n"," ","T","r","u","e"," ","i","f"," ","t","h","e"," ","s","t","r","i","n",
        "g"," ","i","s"," ","a","n"," ","u","p","p","e","r","c","a","s","e"," ","s","t","r","i","n",
        "g",","," ","F","a","l","s","e"," ","o","t","h","e","r","w","i","s","e",".","\n","\n","A",
        " ","s","t","r","i","n","g"," ","i","s"," ","u","p","p","e","r","c","a","s","e"," ","i","f",
        " ","a","l","l"," ","c","a","s","e","d"," ","c","h","a","r","a","c","t","e","r","s"," ","i",
        "n"," ","t","h","e"," ","s","t","r","i","n","g"," ","a","r","e"," ","u","p","p","e","r","c",
        "a","s","e"," ","a","n","d","\n","t","h","e","r","e"," ","i","s"," ","a","t"," ","l","e",
        "a","s","t"," ","o","n","e"," ","c","a","s","e","d"," ","c","h","a","r","a","c","t","e","r",
        " ","i","n"," ","t","h","e"," ","s","t","r","i","n","g",".">>,
      (* 65: Concatenate any number of strings. *)
      <<"C","o","n","c","a","t","e","n","a","t","e"," ","a","n","y"," ","n","u","m","b","e","r"," ","o",
        "f"," ","s","t","r","i","n","g","s",".","\n","\n","T","h","e"," ","s","t","r","i","n","g",
        " ","w","h","o","s","e"," ","m","e","t","h","o","d"," ","i","s"," ","c","a","l","l","e","d",
        " ","i","s"," ","i","n","s","e","r","t","e","d"," ","i","n"," ","b","e","t","w","e","e","n",
        " ","e","a","c","h"," ","g","i","v","e","n"," ","s","t","r","i","n","g",".","\n","T","h",
        "e"," ","r","e","s","u","l","t"," ","i","s"," ","r","e","t","u","r","n","e","d"," ","a","s",
        " ","a"," ","n","e","w"," ","s","t","r","i","n","g",".","\n","\n","E","x","a","m","p","l",
        "e",":"," ","'",".","'",".","j","o","i","n","(","[","'","a","b","'",","," ","'","p","q","'",
        ","," ","'","r","s","'","]",")"," ","-",">"," ","'","a","b",".","p","q",".","r","s","'">>,
      (* 66: Return a left-justified string of length width. *)
      <<"R","e","t","u","r","n"," ","a"," ","l","e","f","t","-","j","u","s","t","i","f","i","e","d"," ",
        "s","t","r","i","n","g"," ","o","f"," ","l","e","n","g","t","h"," ","w","i","d","t","h",".",
        "\n","\n","P","a","d","d","i","n","g"," ","i","s"," ","d","o","n","e"," ","u","s","i","n",
        "g"," ","t","h","e"," ","s","p","e","c","i","f","i","e","d"," ","f","i","l","l"," ","c","h",
        "a","r","a","c","t","e","r"," ","(","d","e","f","a","u","l","t"," ","i","s"," ","a"," ","s",
        "p","a","c","e",")",".">>,
      (* 67: Return a copy of the string converted to lowercase. *)
      <<"R","e","t","u","r","n"," ","a"," ","c","o","p","y"," ","o","f"," ","t","h","e"," ","s","t","r",
        "i","n","g"," ","c","o","n","v","e","r","t","e","d"," ","t","o"," ","l","o","w","e","r","c",
        "a","s","e",".">>,
      (* 68: Return a copy of the string with leading whitespace removed. *)
      <<"R","e","t","u","r","n"," ","a"," ","c","o","p","y"," ","o","f"," ","t","h","e"," ","s","t","r",
        "i","n","g"," ","w","i","t","h"," ","l","e","a","d","i","n","g"," ","w","h","i","t","e","s",
        "p","a","c","e"," ","r","e","m","o","v","e","d",".","\n","\n","I","f"," ","c","h","a","r",
        "s"," ","i","s"," ","g","i","v","e","n"," ","a","n","d"," ","n","o","t"," ","N","o","n","e",
        ","," ","r","e","m","o","v","e"," ","c","h","a","r","a","c","t","e","r","s"," ","i","n"," ",
        "c","h","a","r","s"," ","i","n","s","t","e","a","d",".">>,
      (* 69: Return a translation table usable for str.translate(). *)
      <<"R","e","t","u","r","n"," ","a"," ","t","r","a","n","s","l","a","t","i","o","n"," ","t","a","b",
        "l","e"," ","u","s","a","b","l","e"," ","f","o","r"," ","s","t","r",".","t","r","a","n","s",
        "l","a","t","e","(",")",".","\n","\n","I","f"," ","t","h","e","r","e"," ","i","s"," ","o",
        "n","l","y"," ","o","n","e"," ","a","r","g","u","m","e","n","t",","," ","i","t"," ","m","u",
        "s","t"," ","b","e"," ","a"," ","d","i","c","t","i","o","n","a","r","y"," ","m","a","p","p",
        "i","n","g"," ","U","n","i","c","o","d","e","\n","o","r","d","i","n","a","l","s"," ","(",
        "i","n","t","e","g","e","r","s",")"," ","o","r"," ","c","h","a","r","a","c","t","e","r","s",
        " ","t","o"," ","U","n","i","c","o","d","e"," ","o","r","d","i","n","a","l","s",","," ","s",
        "t","r","i","n","g","s"," ","o","r"," ","N","o","n","e",".","\n","C","h","a","r","a","c",
        "t","e","r"," ","k","e","y","s"," ","w","i","l","l"," ","b","e"," ","t","h","e","n"," ","c",
        "o","n","v","e","r","t","e","d"," ","t","o"," ","o","r","d","i","n","a","l","s",".","\n",
        "I","f"," ","t","h","e","r","e"," ","a","r","e"," ","t","w","o"," ","a","r","g","u","m","e",
        "n","t","s",","," ","t","h","e","y"," ","m","u","s","t"," ","b","e"," ","s","t","r","i","n",
        "g","s"," ","o","f"," ","e","q","u","a","l"," ","l","e","n","g","t","h",","," ","a","n","d",
        "\n","i","n"," ","t","h","e"," ","r","e","s","u","l","t","i","n","g"," ","d","i","c","t",
        "i","o","n","a","r","y",","," ","e","a","c","h"," ","c","h","a","r","a","c","t","e","r"," ",
        "i","n"," ","x"," ","w","i","l","l"," ","b","e"," ","m","a","p","p","e","d"," ","t","o"," ",
        "t","h","e","\n","c","h","a","r","a","c","t","e","r"," ","a","t"," ","t","h","e"," ","s",
        "a","m","e"," ","p","o","s","i","t","i","o","n"," ","i","n"," ","y","."," ","I","f"," ","t",
        "h","e","r","e"," ","i","s"," ","a"," ","t","h","i","r","d"," ","a","r","g","u","m","e","n",
        "t",","," ","i","t","\n","m","u","s","t"," ","b","e"," ","a"," ","s","t","r","i","n","g",
        ","," ","w","h","o","s","e"," ","c","h","a","r","a","c","t","e","r","s"," ","w","i","l","l",
        " ","b","e"," ","m","a","p","p","e","d"," ","t","o"," ","N","o","n","e"," ","i","n"," ","t",
        "h","e"," ","r","e","s","u","l","t",".">>,
      (* 70: Return a type's method resolution order. *)
      <<"R","e","t","u","r","n"," ","a"," ","t","y","p","e","'","s"," ","m","e","t","h","o","d"," ","r",
        "e","s","o","l","u","t","i","o","n"," ","o","r","d","e","r",".">>,
      (* 71: Partition the string into three parts using the given separator. *)
      <<"P","a","r","t","i","t","i","o","n"," ","t","h","e"," ","s","t","r","i","n","g"," ","i","n","t",
        "o"," ","t","h","r","e","e"," ","p","a","r","t","s"," ","u","s","i","n","g"," ","t","h","e",
        " ","g","i","v","e","n"," ","s","e","p","a","r","a","t","o","r",".","\n","\n","T","h","i",
        "s"," ","w","i","l","l"," ","s","e","a","r","c","h"," ","f","o","r"," ","t","h","e"," ","s",
        "e","p","a","r","a","t","o","r"," ","i","n"," ","t","h","e"," ","s","t","r","i","n","g",".",
        " "," ","I","f"," ","t","h","e"," ","s","e","p","a","r","a","t","o","r"," ","i","s"," ","f",
        "o","u","n","d",",","\n","r","e","t","u","r","n","s"," ","a"," ","3","-","t","u","p","l",
        "e"," ","c","o","n","t","a","i","n","i","n","g"," ","t","h","e"," ","p","a","r","t"," ","b",
        "e","f","o","r","e"," ","t","h","e"," ","s","e","p","a","r","a","t","o","r",","," ","t","h",
        "e"," ","s","e","p","a","r","a","t","o","r","\n","i","t","s","e","l","f",","," ","a","n",
        "d"," ","t","h","e"," ","p","a","r","t"," ","a","f","t","e","r"," ","i","t",".","\n","\n",
        "I","f"," ","t","h","e"," ","s","e","p","a","r","a","t","o","r"," ","i","s"," ","n","o","t",
        " ","f","o","u","n","d",","," ","r","e","t","u","r","n","s"," ","a"," ","3","-","t","u","p",
        "l","e"," ","c","o","n","t","a","i","n","i","n","g"," ","t","h","e"," ","o","r","i","g","i",
        "n","a","l"," ","s","t","r","i","n","g","\n","a","n","d"," ","t","w","o"," ","e","m","p",
        "t","y"," ","s","t","r","i","n","g","s",".">>,
      (* 72: Return a str with the given prefix string removed if present. *)
      <<"R","e","t","u","r","n"," ","a"," ","s","t","r"," ","w","i","t","h"," ","t","h","e"," ","g","i",
        "v","e","n"," ","p","r","e","f","i","x"," ","s","t","r","i","n","g"," ","r","e","m","o","v",
        "e","d"," ","i","f"," ","p","r","e","s","e","n","t",".","\n","\n","I","f"," ","t","h","e",
        " ","s","t","r","i","n","g"," ","s","t","a","r","t","s"," ","w","i","t","h"," ","t","h","e",
        " ","p","r","e","f","i","x"," ","s","t","r","i","n","g",","," ","r","e","t","u","r","n"," ",
        "s","t","r","i","n","g","[","l","e","n","(","p","r","e","f","i","x",")",":","]",".","\n",
        "O","t","h","e","r","w","i","s","e",","," ","r","e","t","u","r","n"," ","a"," ","c","o","p",
        "y"," ","o","f"," ","t","h","e"," ","o","r","i","g","i","n","a","l"," ","s","t","r","i","n",
        "g",".">>,
      (* 73: Return a str with the given suffix string removed if present. *)
      <<"R","e","t","u","r","n"," ","a"," ","s","t","r"," ","w","i","t","h"," ","t","h","e"," ","g","i",
        "v","e","n"," ","s","u","f","f","i","x"," ","s","t","r","i","n","g"," ","r","e","m","o","v",
        "e","d"," ","i","f"," ","p","r","e","s","e","n","t",".","\n","\n","I","f"," ","t","h","e",
        " ","s","t","r","i","n","g"," ","e","n","d","s"," ","w","i","t","h"," ","t","h","e"," ","s",
        "u","f","f","i","x"," ","s","t","r","i","n","g"," ","a","n","d"," ","t","h","a","t"," ","s",
        "u","f","f","i","x"," ","i","s"," ","n","o","t"," ","e","m","p","t","y",",","\n","r","e",
        "t","u","r","n"," ","s","t","r","i","n","g","[",":","-","l","e","n","(","s","u","f","f","i",
        "x",")","]","."," ","O","t","h","e","r","w","i","s","e",","," ","r","e","t","u","r","n"," ",
        "a"," ","c","o","p","y"," ","o","f"," ","t","h","e"," ","o","r","i","g","i","n","a","l",
        "\n","s","t","r","i","n","g",".">>,
      (* 74: Return a copy with all occurrences of substring old replaced by new. *)
      <<"R","e","t","u","r","n"," ","a"," ","c","o","p","y"," ","w","i","t","h"," ","a","l","l"," ","o",
        "c","c","u","r","r","e","n","c","e","s"," ","o","f"," ","s","u","b","s","t","r","i","n","g",
        " ","o","l","d"," ","r","e","p","l","a","c","e","d"," ","b","y"," ","n","e","w",".","\n",
        "\n"," "," ","c","o","u","n","t","\n"," "," "," "," ","M","a","x","i","m","u","m"," ","n",
        "u","m","b","e","r"," ","o","f"," ","o","c","c","u","r","r","e","n","c","e","s"," ","t","o",
        " ","r","e","p","l","a","c","e",".","\n"," "," "," "," ","-","1"," ","(","t","h","e"," ",
        "d","e","f","a","u","l","t"," ","v","a","l","u","e",")"," ","m","e","a","n","s"," ","r","e",
        "p","l","a","c","e"," ","a","l","l"," ","o","c","c","u","r","r","e","n","c","e","s",".",
        "\n","\n","I","f"," ","t","h","e"," ","o","p","t","i","o","n","a","l"," ","a","r","g","u",
        "m","e","n","t"," ","c","o","u","n","t"," ","i","s"," ","g","i","v","e","n",","," ","o","n",
        "l","y"," ","t","h","e"," ","f","i","r","s","t"," ","c","o","u","n","t"," ","o","c","c","u",
        "r","r","e","n","c","e","s"," ","a","r","e","\n","r","e","p","l","a","c","e","d",".">>,
      (* 75: S.rfind(sub[, start[, end]]) -> int *)
      <<"S",".","r","f","i","n","d","(","s","u","b","[",","," ","s","t","a","r","t","[",","," ","e","n",
        "d","]","]",")"," ","-",">"," ","i","n","t","\n","\n","R","e","t","u","r","n"," ","t","h",
        "e"," ","h","i","g","h","e","s","t"," ","i","n","d","e","x"," ","i","n"," ","S"," ","w","h",
        "e","r","e"," ","s","u","b","s","t","r","i","n","g"," ","s","u","b"," ","i","s"," ","f","o",
        "u","n","d",",","\n","s","u","c","h"," ","t","h","a","t"," ","s","u","b"," ","i","s"," ",
        "c","o","n","t","a","i","n","e","d"," ","w","i","t","h","i","n"," ","S","[","s","t","a","r",
        "t",":","e","n","d","]","."," "," ","O","p","t","i","o","n","a","l","\n","a","r","g","u",
        "m","e","n","t","s"," ","s","t","a","r","t"," ","a","n","d"," ","e","n","d"," ","a","r","e",
        " ","i","n","t","e","r","p","r","e","t","e","d"," ","a","s"," ","i","n"," ","s","l","i","c",
        "e"," ","n","o","t","a","t","i","o","n",".","\n","\n","R","e","t","u","r","n"," ","-","1",
        " ","o","n"," ","f","a","i","l","u","r","e",".">>,
      (* 76: S.rindex(sub[, start[, end]]) -> int *)
      <<"S",".","r","i","n","d","e","x","(","s","u","b","[",","," ","s","t","a","r","t","[",","," ","e",
        "n","d","]","]",")"," ","-",">"," ","i","n","t","\n","\n","R","e","t","u","r","n"," ","t",
        "h","e"," ","h","i","g","h","e","s","t"," ","i","n","d","e","x"," ","i","n"," ","S"," ","w",
        "h","e","r","e"," ","s","u","b","s","t","r","i","n","g"," ","s","u","b"," ","i","s"," ","f",
        "o","u","n","d",",","\n","s","u","c","h"," ","t","h","a","t"," ","s","u","b"," ","i","s",
        " ","c","o","n","t","a","i","n","e","d"," ","w","i","t","h","i","n"," ","S","[","s","t","a",
        "r","t",":","e","n","d","]","."," "," ","O","p","t","i","o","n","a","l","\n","a","r","g",
        "u","m","e","n","t","s"," ","s","t","a","r","t"," ","a","n","d"," ","e","n","d"," ","a","r",
        "e"," ","i","n","t","e","r","p","r","e","t","e","d"," ","a","s"," ","i","n"," ","s","l","i",
        "c","e"," ","n","o","t","a","t","i","o","n",".","\n","\n","R","a","i","s","e","s"," ","V",
        "a","l","u","e","E","r","r","o","r"," ","w","h","e","n"," ","t","h","e"," ","s","u","b","s",
        "t","r","i","n","g"," ","i","s"," ","n","o","t"," ","f","o","u","n","d",".">>,
      (* 77: Return a right-justified string of length width. *)
      <<"R","e","t","u","r","n"," ","a"," ","r","i","g","h","t","-","j","u","s","t","i","f","i","e","d",
        " ","s","t","r","i","n","g"," ","o","f"," ","l","e","n","g","t","h"," ","w","i","d","t","h",
        ".","\n","\n","P","a","d","d","i","n","g"," ","i","s"," ","d","o","n","e"," ","u","s","i",
        "n","g"," ","t","h","e"," ","s","p","e","c","i","f","i","e","d"," ","f","i","l","l"," ","c",
        "h","a","r","a","c","t","e","r"," ","(","d","e","f","a","u","l","t"," ","i","s"," ","a"," ",
        "s","p","a","c","e",")",".">>,
      (* 78: Partition the string into three parts using the given separator. *)
      <<"P","a","r","t","i","t","i","o","n"," ","t","h","e"," ","s","t","r","i","n","g"," ","i","n","t",
        "o"," ","t","h","r","e","e"," ","p","a","r","t","s"," ","u","s","i","n","g"," ","t","h","e",
        " ","g","i","v","e","n"," ","s","e","p","a","r","a","t","o","r",".","\n","\n","T","h","i",
        "s"," ","w","i","l","l"," ","s","e","a","r","c","h"," ","f","o","r"," ","t","h","e"," ","s",
        "e","p","a","r","a","t","o","r"," ","i","n"," ","t","h","e"," ","s","t","r","i","n","g",",",
        " ","s","t","a","r","t","i","n","g"," ","a","t"," ","t","h","e"," ","e","n","d","."," ","I",
        "f","\n","t","h","e"," ","s","e","p","a","r","a","t","o","r"," ","i","s"," ","f","o","u",
        "n","d",","," ","r","e","t","u","r","n","s"," ","a"," ","3","-","t","u","p","l","e"," ","c",
        "o","n","t","a","i","n","i","n","g"," ","t","h","e"," ","p","a","r","t"," ","b","e","f","o",
        "r","e"," ","t","h","e","\n","s","e","p","a","r","a","t","o","r",","," ","t","h","e"," ",
        "s","e","p","a","r","a","t","o","r"," ","i","t","s","e","l","f",","," ","a","n","d"," ","t",
        "h","e"," ","p","a","r","t"," ","a","f","t","e","r"," ","i","t",".","\n","\n","I","f"," ",
        "t","h","e"," ","s","e","p","a","r","a","t","o","r"," ","i","s"," ","n","o","t"," ","f","o",
        "u","n","d",","," ","r","e","t","u","r","n","s"," ","a"," ","3","-","t","u","p","l","e"," ",
        "c","o","n","t","a","i","n","i","n","g"," ","t","w","o"," ","e","m","p","t","y"," ","s","t",
        "r","i","n","g","s","\n","a","n","d"," ","t","h","e"," ","o","r","i","g","i","n","a","l",
        " ","s","t","r","i","n","g",".">>,
      (* 79: Return a list of the substrings in the string, using sep as the separa *)
      <<"R","e","t","u","r","n"," ","a"," ","l","i","s","t"," ","o","f"," ","t","h","e"," ","s","u","b",
        "s","t","r","i","n","g","s"," ","i","n"," ","t","h","e"," ","s","t","r","i","n","g",","," ",
        "u","s","i","n","g"," ","s","e","p"," ","a","s"," ","t","h","e"," ","s","e","p","a","r","a",
        "t","o","r"," ","s","t","r","i","n","g",".","\n","\n"," "," ","s","e","p","\n"," "," "," ",
        " ","T","h","e"," ","s","e","p","a","r","a","t","o","r"," ","u","s","e","d"," ","t","o"," ",
        "s","p","l","i","t"," ","t","h","e"," ","s","t","r","i","n","g",".","\n","\n"," "," "," ",
        " ","W","h","e","n"," ","s","e","t"," ","t","o"," ","N","o","n","e"," ","(","t","h","e"," ",
        "d","e","f","a","u","l","t"," ","v","a","l","u","e",")",","," ","w","i","l","l"," ","s","p",
        "l","i","t"," ","o","n"," ","a","n","y"," ","w","h","i","t","e","s","p","a","c","e","\n",
        " "," "," "," ","c","h","a","r","a","c","t","e","r"," ","(","i","n","c","l","u","d","i","n",
        "g"," ","\\","n"," ","\\","r"," ","\\","t"," ","\\","f"," ","a","n","d"," ","s","p","a","c",
        "e","s",")"," ","a","n","d"," ","w","i","l","l"," ","d","i","s","c","a","r","d","\n"," ",
        " "," "," ","e","m","p","t","y"," ","s","t","r","i","n","g","s"," ","f","r","o","m"," ","t",
        "h","e"," ","r","e","s","u","l","t",".","\n"," "," ","m","a","x","s","p","l","i","t","\n",
        " "," "," "," ","M","a","x","i","m","u","m"," ","n","u","m","b","e","r"," ","o","f"," ","s",
        "p","l","i","t","s"," ","(","s","t","a","r","t","i","n","g"," ","f","r","o","m"," ","t","h",
        "e"," ","l","e","f","t",")",".","\n"," "," "," "," ","-","1"," ","(","t","h","e"," ","d",
        "e","f","a","u","l","t"," ","v","a","l","u","e",")"," ","m","e","a","n","s"," ","n","o"," ",
        "l","i","m","i","t",".","\n","\n","S","p","l","i","t","t","i","n","g"," ","s","t","a","r",
        "t","s"," ","a","t"," ","t","h","e"," ","e","n","d"," ","o","f"," ","t","h","e"," ","s","t",
        "r","i","n","g"," ","a","n","d"," ","w","o","r","k","s"," ","t","o"," ","t","h","e"," ","f",
        "r","o","n","t",".">>,
      (* 80: Return a copy of the string with trailing whitespace removed. *)
      <<"R","e","t","u","r","n"," ","a"," ","c","o","p","y"," ","o","f"," ","t","h","e"," ","s","t","r",
        "i","n","g"," ","w","i","t","h"," ","t","r","a","i","l","i","n","g"," ","w","h","i","t","e",
        "s","p","a","c","e"," ","r","e","m","o","v","e","d",".","\n","\n","I","f"," ","c","h","a",
        "r","s"," ","i","s"," ","g","i","v","e","n"," ","a","n","d"," ","n","o","t"," ","N","o","n",
        "e",","," ","r","e","m","o","v","e"," ","c","h","a","r","a","c","t","e","r","s"," ","i","n",
        " ","c","h","a","r","s"," ","i","n","s","t","e","a","d",".">>,
      (* 81: Return a list of the substrings in the string, using sep as the separa *)
      <<"R","e","t","u","r","n"," ","a"," ","l","i","s","t"," ","o","f"," ","t","h","e"," ","s","u","b",
        "s","t","r","i","n","g","s"," ","i","n"," ","t","h","e"," ","s","t","r","i","n","g",","," ",
        "u","s","i","n","g"," ","s","e","p"," ","a","s"," ","t","h","e"," ","s","e","p","a","r","a",
        "t","o","r"," ","s","t","r","i","n","g",".","\n","\n"," "," ","s","e","p","\n"," "," "," ",
        " ","T","h","e"," ","s","e","p","a","r","a","t","o","r"," ","u","s","e","d"," ","t","o"," ",
        "s","p","l","i","t"," ","t","h","e"," ","s","t","r","i","n","g",".","\n","\n"," "," "," ",
        " ","W","h","e","n"," ","s","e","t"," ","t","o"," ","N","o","n","e"," ","(","t","h","e"," ",
        "d","e","f","a","u","l","t"," ","v","a","l","u","e",")",","," ","w","i","l","l"," ","s","p",
        "l","i","t"," ","o","n"," ","a","n","y"," ","w","h","i","t","e","s","p","a","c","e","\n",
        " "," "," "," ","c","h","a","r","a","c","t","e","r"," ","(","i","n","c","l","u","d","i","n",
        "g"," ","\\","n"," ","\\","r"," ","\\","t"," ","\\","f"," ","a","n","d"," ","s","p","a","c",
        "e","s",")"," ","a","n","d"," ","w","i","l","l"," ","d","i","s","c","a","r","d","\n"," ",
        " "," "," ","e","m","p","t","y"," ","s","t","r","i","n","g","s"," ","f","r","o","m"," ","t",
        "h","e"," ","r","e","s","u","l","t",".","\n"," "," ","m","a","x","s","p","l","i","t","\n",
        " "," "," "," ","M","a","x","i","m","u","m"," ","n","u","m","b","e","r"," ","o","f"," ","s",
        "p","l","i","t","s"," ","(","s","t","a","r","t","i","n","g"," ","f","r","o","m"," ","t","h",
        "e"," ","l","e","f","t",")",".","\n"," "," "," "," ","-","1"," ","(","t","h","e"," ","d",
        "e","f","a","u","l","t"," ","v","a","l","u","e",")"," ","m","e","a","n","s"," ","n","o"," ",
        "l","i","m","i","t",".","\n","\n","N","o","t","e",","," ","s","t","r",".","s","p","l","i",
        "t","(",")"," ","i","s"," ","m","a","i","n","l","y"," ","u","s","e","f","u","l"," ","f","o",
        "r"," ","d","a","t","a"," ","t","h","a","t"," ","h","a","s"," ","b","e","e","n"," ","i","n",
        "t","e","n","t","i","o","n","a","l","l","y","\n","d","e","l","i","m","i","t","e","d",".",
        " "," ","W","i","t","h"," ","n","a","t","u","r","a","l"," ","t","e","x","t"," ","t","h","a",
        "t"," ","i","n","c","l","u","d","e","s"," ","p","u","n","c","t","u","a","t","i","o","n",",",
        " ","c","o","n","s","i","d","e","r"," ","u","s","i","n","g","\n","t","h","e"," ","r","e",
        "g","u","l","a","r"," ","e","x","p","r","e","s","s","i","o","n"," ","m","o","d","u","l","e",
        ".">>,
      (* 82: Return a list of the lines in the string, breaking at line boundaries. *)
      <<"R","e","t","u","r","n"," ","a"," ","l","i","s","t"," ","o","f"," ","t","h","e"," ","l","i","n",
        "e","s"," ","i","n"," ","t","h","e"," ","s","t","r","i","n","g",","," ","b","r","e","a","k",
        "i","n","g"," ","a","t"," ","l","i","n","e"," ","b","o","u","n","d","a","r","i","e","s",".",
        "\n","\n","L","i","n","e"," ","b","r","e","a","k","s"," ","a","r","e"," ","n","o","t"," ",
        "i","n","c","l","u","d","e","d"," ","i","n"," ","t","h","e"," ","r","e","s","u","l","t","i",
        "n","g"," ","l","i","s","t"," ","u","n","l","e","s","s"," ","k","e","e","p","e","n","d","s",
        " ","i","s"," ","g","i","v","e","n"," ","a","n","d","\n","t","r","u","e",".">>,
      (* 83: S.startswith(prefix[, start[, end]]) -> bool *)
      <<"S",".","s","t","a","r","t","s","w","i","t","h","(","p","r","e","f","i","x","[",","," ","s","t",
        "a","r","t","[",","," ","e","n","d","]","]",")"," ","-",">"," ","b","o","o","l","\n","\n",
        "R","e","t","u","r","n"," ","T","r","u","e"," ","i","f"," ","S"," ","s","t","a","r","t","s",
        " ","w","i","t","h"," ","t","h","e"," ","s","p","e","c","i","f","i","e","d"," ","p","r","e",
        "f","i","x",","," ","F","a","l","s","e"," ","o","t","h","e","r","w","i","s","e",".","\n",
        "W","i","t","h"," ","o","p","t","i","o","n","a","l"," ","s","t","a","r","t",","," ","t","e",
        "s","t"," ","S"," ","b","e","g","i","n","n","i","n","g"," ","a","t"," ","t","h","a","t"," ",
        "p","o","s","i","t","i","o","n",".","\n","W","i","t","h"," ","o","p","t","i","o","n","a",
        "l"," ","e","n","d",","," ","s","t","o","p"," ","c","o","m","p","a","r","i","n","g"," ","S",
        " ","a","t"," ","t","h","a","t"," ","p","o","s","i","t","i","o","n",".","\n","p","r","e",
        "f","i","x"," ","c","a","n"," ","a","l","s","o"," ","b","e"," ","a"," ","t","u","p","l","e",
        " ","o","f"," ","s","t","r","i","n","g","s"," ","t","o"," ","t","r","y",".">>,
      (* 84: Return a copy of the string with leading and trailing whitespace remov *)
      <<"R","e","t","u","r","n"," ","a"," ","c","o","p","y"," ","o","f"," ","t","h","e"," ","s","t","r",
        "i","n","g"," ","w","i","t","h"," ","l","e","a","d","i","n","g"," ","a","n","d"," ","t","r",
        "a","i","l","i","n","g"," ","w","h","i","t","e","s","p","a","c","e"," ","r","e","m","o","v",
        "e","d",".","\n","\n","I","f"," ","c","h","a","r","s"," ","i","s"," ","g","i","v","e","n",
        " ","a","n","d"," ","n","o","t"," ","N","o","n","e",","," ","r","e","m","o","v","e"," ","c",
        "h","a","r","a","c","t","e","r","s"," ","i","n"," ","c","h","a","r","s"," ","i","n","s","t",
        "e","a","d",".">>,
      (* 85: Convert uppercase characters to lowercase and lowercase characters to  *)
      <<"C","o","n","v","e","r","t"," ","u","p","p","e","r","c","a","s","e"," ","c","h","a","r","a","c",
        "t","e","r","s"," ","t","o"," ","l","o","w","e","r","c","a","s","e"," ","a","n","d"," ","l",
        "o","w","e","r","c","a","s","e"," ","c","h","a","r","a","c","t","e","r","s"," ","t","o"," ",
        "u","p","p","e","r","c","a","s","e",".">>,
      (* 86: Return a version of the string where each word is titlecased. *)
      <<"R","e","t","u","r","n"," ","a"," ","v","e","r","s","i","o","n"," ","o","f"," ","t","h","e"," ",
        "s","t","r","i","n","g"," ","w","h","e","r","e"," ","e","a","c","h"," ","w","o","r","d"," ",
        "i","s"," ","t","i","t","l","e","c","a","s","e","d",".","\n","\n","M","o","r","e"," ","s",
        "p","e","c","i","f","i","c","a","l","l","y",","," ","w","o","r","d","s"," ","s","t","a","r",
        "t"," ","w","i","t","h"," ","u","p","p","e","r","c","a","s","e","d"," ","c","h","a","r","a",
        "c","t","e","r","s"," ","a","n","d"," ","a","l","l"," ","r","e","m","a","i","n","i","n","g",
        "\n","c","a","s","e","d"," ","c","h","a","r","a","c","t","e","r","s"," ","h","a","v","e",
        " ","l","o","w","e","r"," ","c","a","s","e",".">>,
      (* 87: Replace each character in the string using the given translation table *)
      <<"R","e","p","l","a","c","e"," ","e","a","c","h"," ","c","h","a","r","a","c","t","e","r"," ","i",
        "n"," ","t","h","e"," ","s","t","r","i","n","g"," ","u","s","i","n","g"," ","t","h","e"," ",
        "g","i","v","e","n"," ","t","r","a","n","s","l","a","t","i","o","n"," ","t","a","b","l","e",
        ".","\n","\n"," "," ","t","a","b","l","e","\n"," "," "," "," ","T","r","a","n","s","l","a",
        "t","i","o","n"," ","t","a","b","l","e",","," ","w","h","i","c","h"," ","m","u","s","t"," ",
        "b","e"," ","a"," ","m","a","p","p","i","n","g"," ","o","f"," ","U","n","i","c","o","d","e",
        " ","o","r","d","i","n","a","l","s"," ","t","o","\n"," "," "," "," ","U","n","i","c","o",
        "d","e"," ","o","r","d","i","n","a","l","s",","," ","s","t","r","i","n","g","s",","," ","o",
        "r"," ","N","o","n","e",".","\n","\n","T","h","e"," ","t","a","b","l","e"," ","m","u","s",
        "t"," ","i","m","p","l","e","m","e","n","t"," ","l","o","o","k","u","p","/","i","n","d","e",
        "x","i","n","g"," ","v","i","a"," ","_","_","g","e","t","i","t","e","m","_","_",","," ","f",
        "o","r"," ","i","n","s","t","a","n","c","e"," ","a","\n","d","i","c","t","i","o","n","a",
        "r","y"," ","o","r"," ","l","i","s","t","."," "," ","I","f"," ","t","h","i","s"," ","o","p",
        "e","r","a","t","i","o","n"," ","r","a","i","s","e","s"," ","L","o","o","k","u","p","E","r",
        "r","o","r",","," ","t","h","e"," ","c","h","a","r","a","c","t","e","r"," ","i","s","\n",
        "l","e","f","t"," ","u","n","t","o","u","c","h","e","d","."," "," ","C","h","a","r","a","c",
        "t","e","r","s"," ","m","a","p","p","e","d"," ","t","o"," ","N","o","n","e"," ","a","r","e",
        " ","d","e","l","e","t","e","d",".">>,
      (* 88: Return a copy of the string converted to uppercase. *)
      <<"R","e","t","u","r","n"," ","a"," ","c","o","p","y"," ","o","f"," ","t","h","e"," ","s","t","r",
        "i","n","g"," ","c","o","n","v","e","r","t","e","d"," ","t","o"," ","u","p","p","e","r","c",
        "a","s","e",".">>,
      (* 89: Pad a numeric string with zeros on the left, to fill a field of the gi *)
      <<"P","a","d"," ","a"," ","n","u","m","e","r","i","c"," ","s","t","r","i","n","g"," ","w","i","t",
        "h"," ","z","e","r","o","s"," ","o","n"," ","t","h","e"," ","l","e","f","t",","," ","t","o",
        " ","f","i","l","l"," ","a"," ","f","i","e","l","d"," ","o","f"," ","t","h","e"," ","g","i",
        "v","e","n"," ","w","i","d","t","h",".","\n","\n","T","h","e"," ","s","t","r","i","n","g",
        " ","i","s"," ","n","e","v","e","r"," ","t","r","u","n","c","a","t","e","d",".">>,
      (* 90: abs(self) *)
      <<"a","b","s","(","s","e","l","f",")">>,
      (* 91: Return self&value. *)
      <<"R","e","t","u","r","n"," ","s","e","l","f","&","v","a","l","u","e",".">>,
      (* 92: True if self else False *)
      <<"T","r","u","e"," ","i","f"," ","s","e","l","f"," ","e","l","s","e"," ","F","a","l","s","e">>,
      (* 93: Ceiling of an Integral returns itself. *)
      <<"C","e","i","l","i","n","g"," ","o","f"," ","a","n"," ","I","n","t","e","g","r","a","l"," ","r",
        "e","t","u","r","n","s"," ","i","t","s","e","l","f",".">>,
      (* 94: Return divmod(self, value). *)
      <<"R","e","t","u","r","n"," ","d","i","v","m","o","d","(","s","e","l","f",","," ","v","a","l","u",
        "e",")",".">>,
      (* 95: float(self) *)
      <<"f","l","o","a","t","(","s","e","l","f",")">>,
      (* 96: Flooring an Integral returns itself. *)
      <<"F","l","o","o","r","i","n","g"," ","a","n"," ","I","n","t","e","g","r","a","l"," ","r","e","t",
        "u","r","n","s"," ","i","t","s","e","l","f",".">>,
      (* 97: Return self//value. *)
      <<"R","e","t","u","r","n"," ","s","e","l","f","/","/","v","a","l","u","e",".">>,
      (* 98: Default object formatter. *)
      <<"D","e","f","a","u","l","t"," ","o","b","j","e","c","t"," ","f","o","r","m","a","t","t","e","r",
        ".">>,
      (* 99: Return self converted to an integer, if self is suitable for use as an *)
      <<"R","e","t","u","r","n"," ","s","e","l","f"," ","c","o","n","v","e","r","t","e","d"," ","t","o",
        " ","a","n"," ","i","n","t","e","g","e","r",","," ","i","f"," ","s","e","l","f"," ","i","s",
        " ","s","u","i","t","a","b","l","e"," ","f","o","r"," ","u","s","e"," ","a","s"," ","a","n",
        " ","i","n","d","e","x"," ","i","n","t","o"," ","a"," ","l","i","s","t",".">>,
      (* 100: int(self) *)
      <<"i","n","t","(","s","e","l","f",")">>,
      (* 101: ~self *)
      <<"~","s","e","l","f">>,
      (* 102: Return self<<value. *)
      <<"R","e","t","u","r","n"," ","s","e","l","f","<","<","v","a","l","u","e",".">>,
      (* 103: -self *)
      <<"-","s","e","l","f">>,
      (* 104: +self *)
      <<"+","s","e","l","f">>,
      (* 105: Return pow(self, value, mod). *)
      <<"R","e","t","u","r","n"," ","p","o","w","(","s","e","l","f",","," ","v","a","l","u","e",","," ",
        "m","o","d",")",".">>,
      (* 106: Return value+self. *)
      <<"R","e","t","u","r","n"," ","v","a","l","u","e","+","s","e","l","f",".">>,
      (* 107: Return value&self. *)
      <<"R","e","t","u","r","n"," ","v","a","l","u","e","&","s","e","l","f",".">>,
      (* 108: Return divmod(value, self). *)
      <<"R","e","t","u","r","n"," ","d","i","v","m","o","d","(","v","a","l","u","e",","," ","s","e","l",
        "f",")",".">>,
      (* 109: Return value//self. *)
      <<"R","e","t","u","r","n"," ","v","a","l","u","e","/","/","s","e","l","f",".">>,
      (* 110: Return value<<self. *)
      <<"R","e","t","u","r","n"," ","v","a","l","u","e","<","<","s","e","l","f",".">>,
      (* 111: Rounding an Integral returns itself. *)
      <<"R","o","u","n","d","i","n","g"," ","a","n"," ","I","n","t","e","g","r","a","l"," ","r","e","t",
        "u","r","n","s"," ","i","t","s","e","l","f",".","\n","\n","R","o","u","n","d","i","n","g",
        " ","w","i","t","h"," ","a","n"," ","n","d","i","g","i","t","s"," ","a","r","g","u","m","e",
        "n","t"," ","a","l","s","o"," ","r","e","t","u","r","n","s"," ","a","n"," ","i","n","t","e",
        "g","e","r",".">>,
      (* 112: Return pow(value, self, mod). *)
      <<"R","e","t","u","r","n"," ","p","o","w","(","v","a","l","u","e",","," ","s","e","l","f",","," ",
        "m","o","d",")",".">>,
      (* 113: Return value>>self. *)
      <<"R","e","t","u","r","n"," ","v","a","l","u","e",">",">","s","e","l","f",".">>,
      (* 114: Return self>>value. *)
      <<"R","e","t","u","r","n"," ","s","e","l","f",">",">","v","a","l","u","e",".">>,
      (* 115: Return value-self. *)
      <<"R","e","t","u","r","n"," ","v","a","l","u","e","-","s","e","l","f",".">>,
      (* 116: Return value/self. *)
      <<"R","e","t","u","r","n"," ","v","a","l","u","e","/","s","e","l","f",".">>,
      (* 117: Return value^self. *)
      <<"R","e","t","u","r","n"," ","v","a","l","u","e","^","s","e","l","f",".">>,
      (* 118: Returns size in memory, in bytes. *)
      <<"R","e","t","u","r","n","s"," ","s","i","z","e"," ","i","n"," ","m","e","m","o","r","y",","," ",
        "i","n"," ","b","y","t","e","s",".">>,
      (* 119: Return self-value. *)
      <<"R","e","t","u","r","n"," ","s","e","l","f","-","v","a","l","u","e",".">>,
      (* 120: Return self/value. *)
      <<"R","e","t","u","r","n"," ","s","e","l","f","/","v","a","l","u","e",".">>,
      (* 121: Truncating an Integral returns itself. *)
      <<"T","r","u","n","c","a","t","i","n","g"," ","a","n"," ","I","n","t","e","g","r","a","l"," ","r",
        "e","t","u","r","n","s"," ","i","t","s","e","l","f",".">>,
      (* 122: Return self^value. *)
      <<"R","e","t","u","r","n"," ","s","e","l","f","^","v","a","l","u","e",".">>,
      (* 123: Return integer ratio. *)
      <<"R","e","t","u","r","n"," ","i","n","t","e","g","e","r"," ","r","a","t","i","o",".","\n","\n","R",
        "e","t","u","r","n"," ","a"," ","p","a","i","r"," ","o","f"," ","i","n","t","e","g","e","r",
        "s",","," ","w","h","o","s","e"," ","r","a","t","i","o"," ","i","s"," ","e","x","a","c","t",
        "l","y"," ","e","q","u","a","l"," ","t","o"," ","t","h","e"," ","o","r","i","g","i","n","a",
        "l"," ","i","n","t","\n","a","n","d"," ","w","i","t","h"," ","a"," ","p","o","s","i","t",
        "i","v","e"," ","d","e","n","o","m","i","n","a","t","o","r",".","\n","\n",">",">",">"," ",
        "(","1","0",")",".","a","s","_","i","n","t","e","g","e","r","_","r","a","t","i","o","(",")",
        "\n","(","1","0",","," ","1",")","\n",">",">",">"," ","(","-","1","0",")",".","a","s","_",
        "i","n","t","e","g","e","r","_","r","a","t","i","o","(",")","\n","(","-","1","0",","," ",
        "1",")","\n",">",">",">"," ","(","0",")",".","a","s","_","i","n","t","e","g","e","r","_",
        "r","a","t","i","o","(",")","\n","(","0",","," ","1",")">>,
      (* 124: Number of ones in the binary representation of the absolute value of s *)
      <<"N","u","m","b","e","r"," ","o","f"," ","o","n","e","s"," ","i","n"," ","t","h","e"," ","b","i",
        "n","a","r","y"," ","r","e","p","r","e","s","e","n","t","a","t","i","o","n"," ","o","f"," ",
        "t","h","e"," ","a","b","s","o","l","u","t","e"," ","v","a","l","u","e"," ","o","f"," ","s",
        "e","l","f",".","\n","\n","A","l","s","o"," ","k","n","o","w","n"," ","a","s"," ","t","h",
        "e"," ","p","o","p","u","l","a","t","i","o","n"," ","c","o","u","n","t",".","\n","\n",">",
        ">",">"," ","b","i","n","(","1","3",")","\n","'","0","b","1","1","0","1","'","\n",">",">",
        ">"," ","(","1","3",")",".","b","i","t","_","c","o","u","n","t","(",")","\n","3">>,
      (* 125: Number of bits necessary to represent self in binary. *)
      <<"N","u","m","b","e","r"," ","o","f"," ","b","i","t","s"," ","n","e","c","e","s","s","a","r","y",
        " ","t","o"," ","r","e","p","r","e","s","e","n","t"," ","s","e","l","f"," ","i","n"," ","b",
        "i","n","a","r","y",".","\n","\n",">",">",">"," ","b","i","n","(","3","7",")","\n","'","0",
        "b","1","0","0","1","0","1","'","\n",">",">",">"," ","(","3","7",")",".","b","i","t","_",
        "l","e","n","g","t","h","(",")","\n","6">>,
      (* 126: Returns self, the complex conjugate of any int. *)
      <<"R","e","t","u","r","n","s"," ","s","e","l","f",","," ","t","h","e"," ","c","o","m","p","l","e",
        "x"," ","c","o","n","j","u","g","a","t","e"," ","o","f"," ","a","n","y"," ","i","n","t","."
        >>,
      (* 127: the denominator of a rational number in lowest terms *)
      <<"t","h","e"," ","d","e","n","o","m","i","n","a","t","o","r"," ","o","f"," ","a"," ","r","a","t",
        "i","o","n","a","l"," ","n","u","m","b","e","r"," ","i","n"," ","l","o","w","e","s","t"," ",
        "t","e","r","m","s">>,
      (* 128: Return the integer represented by the given array of bytes. *)
      <<"R","e","t","u","r","n"," ","t","h","e"," ","i","n","t","e","g","e","r"," ","r","e","p","r","e",
        "s","e","n","t","e","d"," ","b","y"," ","t","h","e"," ","g","i","v","e","n"," ","a","r","r",
        "a","y"," ","o","f"," ","b","y","t","e","s",".","\n","\n","b","y","t","e","s","\n"," "," ",
        "H","o","l","d","s"," ","t","h","e"," ","a","r","r","a","y"," ","o","f"," ","b","y","t","e",
        "s"," ","t","o"," ","c","o","n","v","e","r","t","."," "," ","T","h","e"," ","a","r","g","u",
        "m","e","n","t"," ","m","u","s","t"," ","e","i","t","h","e","r","\n"," "," ","s","u","p",
        "p","o","r","t"," ","t","h","e"," ","b","u","f","f","e","r"," ","p","r","o","t","o","c","o",
        "l"," ","o","r"," ","b","e"," ","a","n"," ","i","t","e","r","a","b","l","e"," ","o","b","j",
        "e","c","t"," ","p","r","o","d","u","c","i","n","g"," ","b","y","t","e","s",".","\n"," ",
        " ","B","y","t","e","s"," ","a","n","d"," ","b","y","t","e","a","r","r","a","y"," ","a","r",
        "e"," ","e","x","a","m","p","l","e","s"," ","o","f"," ","b","u","i","l","t","-","i","n"," ",
        "o","b","j","e","c","t","s"," ","t","h","a","t"," ","s","u","p","p","o","r","t"," ","t","h",
        "e","\n"," "," ","b","u","f","f","e","r"," ","p","r","o","t","o","c","o","l",".","\n","b",
        "y","t","e","o","r","d","e","r","\n"," "," ","T","h","e"," ","b","y","t","e"," ","o","r",
        "d","e","r"," ","u","s","e","d"," ","t","o"," ","r","e","p","r","e","s","e","n","t"," ","t",
        "h","e"," ","i","n","t","e","g","e","r","."," "," ","I","f"," ","b","y","t","e","o","r","d",
        "e","r"," ","i","s"," ","'","b","i","g","'",",","\n"," "," ","t","h","e"," ","m","o","s",
        "t"," ","s","i","g","n","i","f","i","c","a","n","t"," ","b","y","t","e"," ","i","s"," ","a",
        "t"," ","t","h","e"," ","b","e","g","i","n","n","i","n","g"," ","o","f"," ","t","h","e"," ",
        "b","y","t","e"," ","a","r","r","a","y","."," "," ","I","f","\n"," "," ","b","y","t","e",
        "o","r","d","e","r"," ","i","s"," ","'","l","i","t","t","l","e","'",","," ","t","h","e"," ",
        "m","o","s","t"," ","s","i","g","n","i","f","i","c","a","n","t"," ","b","y","t","e"," ","i",
        "s"," ","a","t"," ","t","h","e"," ","e","n","d"," ","o","f"," ","t","h","e","\n"," "," ",
        "b","y","t","e"," ","a","r","r","a","y","."," "," ","T","o"," ","r","e","q","u","e","s","t",
        " ","t","h","e"," ","n","a","t","i","v","e"," ","b","y","t","e"," ","o","r","d","e","r"," ",
        "o","f"," ","t","h","e"," ","h","o","s","t"," ","s","y","s","t","e","m",","," ","u","s","e",
        "\n"," "," ","U+0060","s","y","s",".","b","y","t","e","o","r","d","e","r","'"," ","a","s",
        " ","t","h","e"," ","b","y","t","e"," ","o","r","d","e","r"," ","v","a","l","u","e","."," ",
        " ","D","e","f","a","u","l","t"," ","i","s"," ","t","o"," ","u","s","e"," ","'","b","i","g",
        "'",".","\n","s","i","g","n","e","d","\n"," "," ","I","n","d","i","c","a","t","e","s"," ",
        "w","h","e","t","h","e","r"," ","t","w","o","'","s"," ","c","o","m","p","l","e","m","e","n",
        "t"," ","i","s"," ","u","s","e","d"," ","t","o"," ","r","e","p","r","e","s","e","n","t"," ",
        "t","h","e"," ","i","n","t","e","g","e","r",".">>,
      (* 129: the imaginary part of a complex number *)
      <<"t","h","e"," ","i","m","a","g","i","n","a","r","y"," ","p","a","r","t"," ","o","f"," ","a"," ",
        "c","o","m","p","l","e","x"," ","n","u","m","b","e","r">>,
      (* 130: the numerator of a rational number in lowest terms *)
      <<"t","h","e"," ","n","u","m","e","r","a","t","o","r"," ","o","f"," ","a"," ","r","a","t","i","o",
        "n","a","l"," ","n","u","m","b","e","r"," ","i","n"," ","l","o","w","e","s","t"," ","t","e",
        "r","m","s">>,
      (* 131: the real part of a complex number *)
      <<"t","h","e"," ","r","e","a","l"," ","p","a","r","t"," ","o","f"," ","a"," ","c","o","m","p","l",
        "e","x"," ","n","u","m","b","e","r">>,
      (* 132: Return an array of bytes representing an integer. *)
      <<"R","e","t","u","r","n"," ","a","n"," ","a","r","r","a","y"," ","o","f"," ","b","y","t","e","s",
        " ","r","e","p","r","e","s","e","n","t","i","n","g"," ","a","n"," ","i","n","t","e","g","e",
        "r",".","\n","\n","l","e","n","g","t","h","\n"," "," ","L","e","n","g","t","h"," ","o","f",
        " ","b","y","t","e","s"," ","o","b","j","e","c","t"," ","t","o"," ","u","s","e","."," "," ",
        "A","n"," ","O","v","e","r","f","l","o","w","E","r","r","o","r"," ","i","s"," ","r","a","i",
        "s","e","d"," ","i","f"," ","t","h","e","\n"," "," ","i","n","t","e","g","e","r"," ","i",
        "s"," ","n","o","t"," ","r","e","p","r","e","s","e","n","t","a","b","l","e"," ","w","i","t",
        "h"," ","t","h","e"," ","g","i","v","e","n"," ","n","u","m","b","e","r"," ","o","f"," ","b",
        "y","t","e","s","."," "," ","D","e","f","a","u","l","t","\n"," "," ","i","s"," ","l","e",
        "n","g","t","h"," ","1",".","\n","b","y","t","e","o","r","d","e","r","\n"," "," ","T","h",
        "e"," ","b","y","t","e"," ","o","r","d","e","r"," ","u","s","e","d"," ","t","o"," ","r","e",
        "p","r","e","s","e","n","t"," ","t","h","e"," ","i","n","t","e","g","e","r","."," "," ","I",
        "f"," ","b","y","t","e","o","r","d","e","r"," ","i","s"," ","'","b","i","g","'",",","\n",
        " "," ","t","h","e"," ","m","o","s","t"," ","s","i","g","n","i","f","i","c","a","n","t"," ",
        "b","y","t","e"," ","i","s"," ","a","t"," ","t","h","e"," ","b","e","g","i","n","n","i","n",
        "g"," ","o","f"," ","t","h","e"," ","b","y","t","e"," ","a","r","r","a","y","."," "," ","I",
        "f","\n"," "," ","b","y","t","e","o","r","d","e","r"," ","i","s"," ","'","l","i","t","t",
        "l","e","'",","," ","t","h","e"," ","m","o","s","t"," ","s","i","g","n","i","f","i","c","a",
        "n","t"," ","b","y","t","e"," ","i","s"," ","a","t"," ","t","h","e"," ","e","n","d"," ","o",
        "f"," ","t","h","e","\n"," "," ","b","y","t","e"," ","a","r","r","a","y","."," "," ","T",
        "o"," ","r","e","q","u","e","s","t"," ","t","h","e"," ","n","a","t","i","v","e"," ","b","y",
        "t","e"," ","o","r","d","e","r"," ","o","f"," ","t","h","e"," ","h","o","s","t"," ","s","y",
        "s","t","e","m",","," ","u","s","e","\n"," "," ","U+0060","s","y","s",".","b","y","t","e",
        "o","r","d","e","r","'"," ","a","s"," ","t","h","e"," ","b","y","t","e"," ","o","r","d","e",
        "r"," ","v","a","l","u","e","."," "," ","D","e","f","a","u","l","t"," ","i","s"," ","t","o",
        " ","u","s","e"," ","'","b","i","g","'",".","\n","s","i","g","n","e","d","\n"," "," ","D",
        "e","t","e","r","m","i","n","e","s"," ","w","h","e","t","h","e","r"," ","t","w","o","'","s",
        " ","c","o","m","p","l","e","m","e","n","t"," ","i","s"," ","u","s","e","d"," ","t","o"," ",
        "r","e","p","r","e","s","e","n","t"," ","t","h","e"," ","i","n","t","e","g","e","r",".",
        "\n"," "," ","I","f"," ","s","i","g","n","e","d"," ","i","s"," ","F","a","l","s","e"," ",
        "a","n","d"," ","a"," ","n","e","g","a","t","i","v","e"," ","i","n","t","e","g","e","r"," ",
        "i","s"," ","g","i","v","e","n",","," ","a","n"," ","O","v","e","r","f","l","o","w","E","r",
        "r","o","r","\n"," "," ","i","s"," ","r","a","i","s","e","d",".">>,
      (* 133: Return the ceiling as an Integral. *)
      <<"R","e","t","u","r","n"," ","t","h","e"," ","c","e","i","l","i","n","g"," ","a","s"," ","a","n",
        " ","I","n","t","e","g","r","a","l",".">>,
      (* 134: Return the floor as an Integral. *)
      <<"R","e","t","u","r","n"," ","t","h","e"," ","f","l","o","o","r"," ","a","s"," ","a","n"," ","I",
        "n","t","e","g","r","a","l",".">>,
      (* 135: Formats the float according to format_spec. *)
      <<"F","o","r","m","a","t","s"," ","t","h","e"," ","f","l","o","a","t"," ","a","c","c","o","r","d",
        "i","n","g"," ","t","o"," ","f","o","r","m","a","t","_","s","p","e","c",".">>,
      (* 136: You probably don't want to use this function. *)
      <<"Y","o","u"," ","p","r","o","b","a","b","l","y"," ","d","o","n","'","t"," ","w","a","n","t"," ",
        "t","o"," ","u","s","e"," ","t","h","i","s"," ","f","u","n","c","t","i","o","n",".","\n",
        "\n"," "," ","t","y","p","e","s","t","r","\n"," "," "," "," ","M","u","s","t"," ","b","e",
        " ","'","d","o","u","b","l","e","'"," ","o","r"," ","'","f","l","o","a","t","'",".","\n",
        "\n","I","t"," ","e","x","i","s","t","s"," ","m","a","i","n","l","y"," ","t","o"," ","b",
        "e"," ","u","s","e","d"," ","i","n"," ","P","y","t","h","o","n","'","s"," ","t","e","s","t",
        " ","s","u","i","t","e",".","\n","\n","T","h","i","s"," ","f","u","n","c","t","i","o","n",
        " ","r","e","t","u","r","n","s"," ","w","h","i","c","h","e","v","e","r"," ","o","f"," ","'",
        "u","n","k","n","o","w","n","'",","," ","'","I","E","E","E",","," ","b","i","g","-","e","n",
        "d","i","a","n","'"," ","o","r"," ","'","I","E","E","E",",","\n","l","i","t","t","l","e",
        "-","e","n","d","i","a","n","'"," ","b","e","s","t"," ","d","e","s","c","r","i","b","e","s",
        " ","t","h","e"," ","f","o","r","m","a","t"," ","o","f"," ","f","l","o","a","t","i","n","g",
        " ","p","o","i","n","t"," ","n","u","m","b","e","r","s"," ","u","s","e","d"," ","b","y"," ",
        "t","h","e","\n","C"," ","t","y","p","e"," ","n","a","m","e","d"," ","b","y"," ","t","y",
        "p","e","s","t","r",".">>,
      (* 137: Return the Integral closest to x, rounding half toward even. *)
      <<"R","e","t","u","r","n"," ","t","h","e"," ","I","n","t","e","g","r","a","l"," ","c","l","o","s",
        "e","s","t"," ","t","o"," ","x",","," ","r","o","u","n","d","i","n","g"," ","h","a","l","f",
        " ","t","o","w","a","r","d"," ","e","v","e","n",".","\n","\n","W","h","e","n"," ","a","n",
        " ","a","r","g","u","m","e","n","t"," ","i","s"," ","p","a","s","s","e","d",","," ","w","o",
        "r","k"," ","l","i","k","e"," ","b","u","i","l","t","-","i","n"," ","r","o","u","n","d","(",
        "x",","," ","n","d","i","g","i","t","s",")",".">>,
      (* 138: Size of object in memory, in bytes. *)
      <<"S","i","z","e"," ","o","f"," ","o","b","j","e","c","t"," ","i","n"," ","m","e","m","o","r","y",
        ","," ","i","n"," ","b","y","t","e","s",".">>,
      (* 139: Return the Integral closest to x between 0 and x. *)
      <<"R","e","t","u","r","n"," ","t","h","e"," ","I","n","t","e","g","r","a","l"," ","c","l","o","s",
        "e","s","t"," ","t","o"," ","x"," ","b","e","t","w","e","e","n"," ","0"," ","a","n","d"," ",
        "x",".">>,
      (* 140: Return integer ratio. *)
      <<"R","e","t","u","r","n"," ","i","n","t","e","g","e","r"," ","r","a","t","i","o",".","\n","\n","R",
        "e","t","u","r","n"," ","a"," ","p","a","i","r"," ","o","f"," ","i","n","t","e","g","e","r",
        "s",","," ","w","h","o","s","e"," ","r","a","t","i","o"," ","i","s"," ","e","x","a","c","t",
        "l","y"," ","e","q","u","a","l"," ","t","o"," ","t","h","e"," ","o","r","i","g","i","n","a",
        "l"," ","f","l","o","a","t","\n","a","n","d"," ","w","i","t","h"," ","a"," ","p","o","s",
        "i","t","i","v","e"," ","d","e","n","o","m","i","n","a","t","o","r",".","\n","\n","R","a",
        "i","s","e"," ","O","v","e","r","f","l","o","w","E","r","r","o","r"," ","o","n"," ","i","n",
        "f","i","n","i","t","i","e","s"," ","a","n","d"," ","a"," ","V","a","l","u","e","E","r","r",
        "o","r"," ","o","n"," ","N","a","N","s",".","\n","\n",">",">",">"," ","(","1","0",".","0",
        ")",".","a","s","_","i","n","t","e","g","e","r","_","r","a","t","i","o","(",")","\n","(",
        "1","0",","," ","1",")","\n",">",">",">"," ","(","0",".","0",")",".","a","s","_","i","n",
        "t","e","g","e","r","_","r","a","t","i","o","(",")","\n","(","0",","," ","1",")","\n",">",
        ">",">"," ","(","-",".","2","5",")",".","a","s","_","i","n","t","e","g","e","r","_","r","a",
        "t","i","o","(",")","\n","(","-","1",","," ","4",")">>,
      (* 141: Return self, the complex conjugate of any float. *)
      <<"R","e","t","u","r","n"," ","s","e","l","f",","," ","t","h","e"," ","c","o","m","p","l","e","x",
        " ","c","o","n","j","u","g","a","t","e"," ","o","f"," ","a","n","y"," ","f","l","o","a","t",
        ".">>,
      (* 142: Create a floating-point number from a hexadecimal string. *)
      <<"C","r","e","a","t","e"," ","a"," ","f","l","o","a","t","i","n","g","-","p","o","i","n","t"," ",
        "n","u","m","b","e","r"," ","f","r","o","m"," ","a"," ","h","e","x","a","d","e","c","i","m",
        "a","l"," ","s","t","r","i","n","g",".","\n","\n",">",">",">"," ","f","l","o","a","t",".",
        "f","r","o","m","h","e","x","(","'","0","x","1",".","f","f","f","f","p","1","0","'",")",
        "\n","2","0","4","7",".","9","8","4","3","7","5","\n",">",">",">"," ","f","l","o","a","t",
        ".","f","r","o","m","h","e","x","(","'","-","0","x","1","p","-","1","0","7","4","'",")",
        "\n","-","5","e","-","3","2","4">>,
      (* 143: Return a hexadecimal representation of a floating-point number. *)
      <<"R","e","t","u","r","n"," ","a"," ","h","e","x","a","d","e","c","i","m","a","l"," ","r","e","p",
        "r","e","s","e","n","t","a","t","i","o","n"," ","o","f"," ","a"," ","f","l","o","a","t","i",
        "n","g","-","p","o","i","n","t"," ","n","u","m","b","e","r",".","\n","\n",">",">",">"," ",
        "(","-","0",".","1",")",".","h","e","x","(",")","\n","'","-","0","x","1",".","9","9","9",
        "9","9","9","9","9","9","9","9","9","a","p","-","4","'","\n",">",">",">"," ","3",".","1",
        "4","1","5","9",".","h","e","x","(",")","\n","'","0","x","1",".","9","2","1","f","9","f",
        "0","1","b","8","6","6","e","p","+","1","'">>,
      (* 144: Return True if the float is an integer. *)
      <<"R","e","t","u","r","n"," ","T","r","u","e"," ","i","f"," ","t","h","e"," ","f","l","o","a","t",
        " ","i","s"," ","a","n"," ","i","n","t","e","g","e","r",".">>,
      (* 145: Convert this value to exact type complex. *)
      <<"C","o","n","v","e","r","t"," ","t","h","i","s"," ","v","a","l","u","e"," ","t","o"," ","e","x",
        "a","c","t"," ","t","y","p","e"," ","c","o","m","p","l","e","x",".">>,
      (* 146: Convert to a string according to format_spec. *)
      <<"C","o","n","v","e","r","t"," ","t","o"," ","a"," ","s","t","r","i","n","g"," ","a","c","c","o",
        "r","d","i","n","g"," ","t","o"," ","f","o","r","m","a","t","_","s","p","e","c",".">>,
      (* 147: Return the complex conjugate of its argument. (3-4j).conjugate() == 3+ *)
      <<"R","e","t","u","r","n"," ","t","h","e"," ","c","o","m","p","l","e","x"," ","c","o","n","j","u",
        "g","a","t","e"," ","o","f"," ","i","t","s"," ","a","r","g","u","m","e","n","t","."," ","(",
        "3","-","4","j",")",".","c","o","n","j","u","g","a","t","e","(",")"," ","=","="," ","3","+",
        "4","j",".">>,
      (* 148: See PEP 585 *)
      <<"S","e","e"," ","P","E","P"," ","5","8","5">>,
      (* 149: Delete self[key]. *)
      <<"D","e","l","e","t","e"," ","s","e","l","f","[","k","e","y","]",".">>,
      (* 150: x.__getitem__(y) <==> x[y] *)
      <<"x",".","_","_","g","e","t","i","t","e","m","_","_","(","y",")"," ","<","=","=",">"," ","x","[",
        "y","]">>,
      (* 151: Implement self+=value. *)
      <<"I","m","p","l","e","m","e","n","t"," ","s","e","l","f","+","=","v","a","l","u","e",".">>,
      (* 152: Implement self*=value. *)
      <<"I","m","p","l","e","m","e","n","t"," ","s","e","l","f","*","=","v","a","l","u","e",".">>,
      (* 153: Return a reverse iterator over the list. *)
      <<"R","e","t","u","r","n"," ","a"," ","r","e","v","e","r","s","e"," ","i","t","e","r","a","t","o",
        "r"," ","o","v","e","r"," ","t","h","e"," ","l","i","s","t",".">>,
      (* 154: Set self[key] to value. *)
      <<"S","e","t"," ","s","e","l","f","[","k","e","y","]"," ","t","o"," ","v","a","l","u","e",".">>,
      (* 155: Return the size of the list in memory, in bytes. *)
      <<"R","e","t","u","r","n"," ","t","h","e"," ","s","i","z","e"," ","o","f"," ","t","h","e"," ","l",
        "i","s","t"," ","i","n"," ","m","e","m","o","r","y",","," ","i","n"," ","b","y","t","e","s",
        ".">>,
      (* 156: Append object to the end of the list. *)
      <<"A","p","p","e","n","d"," ","o","b","j","e","c","t"," ","t","o"," ","t","h","e"," ","e","n","d",
        " ","o","f"," ","t","h","e"," ","l","i","s","t",".">>,
      (* 157: Remove all items from list. *)
      <<"R","e","m","o","v","e"," ","a","l","l"," ","i","t","e","m","s"," ","f","r","o","m"," ","l","i",
        "s","t",".">>,
      (* 158: Return a shallow copy of the list. *)
      <<"R","e","t","u","r","n"," ","a"," ","s","h","a","l","l","o","w"," ","c","o","p","y"," ","o","f",
        " ","t","h","e"," ","l","i","s","t",".">>,
      (* 159: Return number of occurrences of value. *)
      <<"R","e","t","u","r","n"," ","n","u","m","b","e","r"," ","o","f"," ","o","c","c","u","r","r","e",
        "n","c","e","s"," ","o","f"," ","v","a","l","u","e",".">>,
      (* 160: Extend list by appending elements from the iterable. *)
      <<"E","x","t","e","n","d"," ","l","i","s","t"," ","b","y"," ","a","p","p","e","n","d","i","n","g",
        " ","e","l","e","m","e","n","t","s"," ","f","r","o","m"," ","t","h","e"," ","i","t","e","r",
        "a","b","l","e",".">>,
      (* 161: Return first index of value. *)
      <<"R","e","t","u","r","n"," ","f","i","r","s","t"," ","i","n","d","e","x"," ","o","f"," ","v","a",
        "l","u","e",".","\n","\n","R","a","i","s","e","s"," ","V","a","l","u","e","E","r","r","o",
        "r"," ","i","f"," ","t","h","e"," ","v","a","l","u","e"," ","i","s"," ","n","o","t"," ","p",
        "r","e","s","e","n","t",".">>,
      (* 162: Insert object before index. *)
      <<"I","n","s","e","r","t"," ","o","b","j","e","c","t"," ","b","e","f","o","r","e"," ","i","n","d",
        "e","x",".">>,
      (* 163: Remove and return item at index (default last). *)
      <<"R","e","m","o","v","e"," ","a","n","d"," ","r","e","t","u","r","n"," ","i","t","e","m"," ","a",
        "t"," ","i","n","d","e","x"," ","(","d","e","f","a","u","l","t"," ","l","a","s","t",")",".",
        "\n","\n","R","a","i","s","e","s"," ","I","n","d","e","x","E","r","r","o","r"," ","i","f",
        " ","l","i","s","t"," ","i","s"," ","e","m","p","t","y"," ","o","r"," ","i","n","d","e","x",
        " ","i","s"," ","o","u","t"," ","o","f"," ","r","a","n","g","e",".">>,
      (* 164: Remove first occurrence of value. *)
      <<"R","e","m","o","v","e"," ","f","i","r","s","t"," ","o","c","c","u","r","r","e","n","c","e"," ",
        "o","f"," ","v","a","l","u","e",".","\n","\n","R","a","i","s","e","s"," ","V","a","l","u",
        "e","E","r","r","o","r"," ","i","f"," ","t","h","e"," ","v","a","l","u","e"," ","i","s"," ",
        "n","o","t"," ","p","r","e","s","e","n","t",".">>,
      (* 165: Reverse *IN PLACE*. *)
      <<"R","e","v","e","r","s","e"," ","*","I","N"," ","P","L","A","C","E","*",".">>,
      (* 166: Sort the list in ascending order and return None. *)
      <<"S","o","r","t"," ","t","h","e"," ","l","i","s","t"," ","i","n"," ","a","s","c","e","n","d","i",
        "n","g"," ","o","r","d","e","r"," ","a","n","d"," ","r","e","t","u","r","n"," ","N","o","n",
        "e",".","\n","\n","T","h","e"," ","s","o","r","t"," ","i","s"," ","i","n","-","p","l","a",
        "c","e"," ","(","i",".","e","."," ","t","h","e"," ","l","i","s","t"," ","i","t","s","e","l",
        "f"," ","i","s"," ","m","o","d","i","f","i","e","d",")"," ","a","n","d"," ","s","t","a","b",
        "l","e"," ","(","i",".","e","."," ","t","h","e","\n","o","r","d","e","r"," ","o","f"," ",
        "t","w","o"," ","e","q","u","a","l"," ","e","l","e","m","e","n","t","s"," ","i","s"," ","m",
        "a","i","n","t","a","i","n","e","d",")",".","\n","\n","I","f"," ","a"," ","k","e","y"," ",
        "f","u","n","c","t","i","o","n"," ","i","s"," ","g","i","v","e","n",","," ","a","p","p","l",
        "y"," ","i","t"," ","o","n","c","e"," ","t","o"," ","e","a","c","h"," ","l","i","s","t"," ",
        "i","t","e","m"," ","a","n","d"," ","s","o","r","t"," ","t","h","e","m",",","\n","a","s",
        "c","e","n","d","i","n","g"," ","o","r"," ","d","e","s","c","e","n","d","i","n","g",","," ",
        "a","c","c","o","r","d","i","n","g"," ","t","o"," ","t","h","e","i","r"," ","f","u","n","c",
        "t","i","o","n"," ","v","a","l","u","e","s",".","\n","\n","T","h","e"," ","r","e","v","e",
        "r","s","e"," ","f","l","a","g"," ","c","a","n"," ","b","e"," ","s","e","t"," ","t","o"," ",
        "s","o","r","t"," ","i","n"," ","d","e","s","c","e","n","d","i","n","g"," ","o","r","d","e",
        "r",".">>,
      (* 167: True if the dictionary has the specified key, else False. *)
      <<"T","r","u","e"," ","i","f"," ","t","h","e"," ","d","i","c","t","i","o","n","a","r","y"," ","h",
        "a","s"," ","t","h","e"," ","s","p","e","c","i","f","i","e","d"," ","k","e","y",","," ","e",
        "l","s","e"," ","F","a","l","s","e",".">>,
      (* 168: Return self|=value. *)
      <<"R","e","t","u","r","n"," ","s","e","l","f","|","=","v","a","l","u","e",".">>,
      (* 169: Return a reverse iterator over the dict keys. *)
      <<"R","e","t","u","r","n"," ","a"," ","r","e","v","e","r","s","e"," ","i","t","e","r","a","t","o",
        "r"," ","o","v","e","r"," ","t","h","e"," ","d","i","c","t"," ","k","e","y","s",".">>,
      (* 170: D.__sizeof__() -> size of D in memory, in bytes *)
      <<"D",".","_","_","s","i","z","e","o","f","_","_","(",")"," ","-",">"," ","s","i","z","e"," ","o",
        "f"," ","D"," ","i","n"," ","m","e","m","o","r","y",","," ","i","n"," ","b","y","t","e","s"
        >>,
      (* 171: D.clear() -> None.  Remove all items from D. *)
      <<"D",".","c","l","e","a","r","(",")"," ","-",">"," ","N","o","n","e","."," "," ","R","e","m","o",
        "v","e"," ","a","l","l"," ","i","t","e","m","s"," ","f","r","o","m"," ","D",".">>,
      (* 172: D.copy() -> a shallow copy of D *)
      <<"D",".","c","o","p","y","(",")"," ","-",">"," ","a"," ","s","h","a","l","l","o","w"," ","c","o",
        "p","y"," ","o","f"," ","D">>,
      (* 173: Create a new dictionary with keys from iterable and values set to valu *)
      <<"C","r","e","a","t","e"," ","a"," ","n","e","w"," ","d","i","c","t","i","o","n","a","r","y"," ",
        "w","i","t","h"," ","k","e","y","s"," ","f","r","o","m"," ","i","t","e","r","a","b","l","e",
        " ","a","n","d"," ","v","a","l","u","e","s"," ","s","e","t"," ","t","o"," ","v","a","l","u",
        "e",".">>,
      (* 174: Return the value for key if key is in the dictionary, else default. *)
      <<"R","e","t","u","r","n"," ","t","h","e"," ","v","a","l","u","e"," ","f","o","r"," ","k","e","y",
        " ","i","f"," ","k","e","y"," ","i","s"," ","i","n"," ","t","h","e"," ","d","i","c","t","i",
        "o","n","a","r","y",","," ","e","l","s","e"," ","d","e","f","a","u","l","t",".">>,
      (* 175: D.items() -> a set-like object providing a view on D's items *)
      <<"D",".","i","t","e","m","s","(",")"," ","-",">"," ","a"," ","s","e","t","-","l","i","k","e"," ",
        "o","b","j","e","c","t"," ","p","r","o","v","i","d","i","n","g"," ","a"," ","v","i","e","w",
        " ","o","n"," ","D","'","s"," ","i","t","e","m","s">>,
      (* 176: D.keys() -> a set-like object providing a view on D's keys *)
      <<"D",".","k","e","y","s","(",")"," ","-",">"," ","a"," ","s","e","t","-","l","i","k","e"," ","o",
        "b","j","e","c","t"," ","p","r","o","v","i","d","i","n","g"," ","a"," ","v","i","e","w"," ",
        "o","n"," ","D","'","s"," ","k","e","y","s">>,
      (* 177: D.pop(k[,d]) -> v, remove specified key and return the corresponding v *)
      <<"D",".","p","o","p","(","k","[",",","d","]",")"," ","-",">"," ","v",","," ","r","e","m","o","v",
        "e"," ","s","p","e","c","i","f","i","e","d"," ","k","e","y"," ","a","n","d"," ","r","e","t",
        "u","r","n"," ","t","h","e"," ","c","o","r","r","e","s","p","o","n","d","i","n","g"," ","v",
        "a","l","u","e",".","\n","\n","I","f"," ","t","h","e"," ","k","e","y"," ","i","s"," ","n",
        "o","t"," ","f","o","u","n","d",","," ","r","e","t","u","r","n"," ","t","h","e"," ","d","e",
        "f","a","u","l","t"," ","i","f"," ","g","i","v","e","n",";"," ","o","t","h","e","r","w","i",
        "s","e",",","\n","r","a","i","s","e"," ","a"," ","K","e","y","E","r","r","o","r",".">>,
      (* 178: Remove and return a (key, value) pair as a 2-tuple. *)
      <<"R","e","m","o","v","e"," ","a","n","d"," ","r","e","t","u","r","n"," ","a"," ","(","k","e","y",
        ","," ","v","a","l","u","e",")"," ","p","a","i","r"," ","a","s"," ","a"," ","2","-","t","u",
        "p","l","e",".","\n","\n","P","a","i","r","s"," ","a","r","e"," ","r","e","t","u","r","n",
        "e","d"," ","i","n"," ","L","I","F","O"," ","(","l","a","s","t","-","i","n",","," ","f","i",
        "r","s","t","-","o","u","t",")"," ","o","r","d","e","r",".","\n","R","a","i","s","e","s",
        " ","K","e","y","E","r","r","o","r"," ","i","f"," ","t","h","e"," ","d","i","c","t"," ","i",
        "s"," ","e","m","p","t","y",".">>,
      (* 179: Insert key with a value of default if key is not in the dictionary. *)
      <<"I","n","s","e","r","t"," ","k","e","y"," ","w","i","t","h"," ","a"," ","v","a","l","u","e"," ",
        "o","f"," ","d","e","f","a","u","l","t"," ","i","f"," ","k","e","y"," ","i","s"," ","n","o",
        "t"," ","i","n"," ","t","h","e"," ","d","i","c","t","i","o","n","a","r","y",".","\n","\n",
        "R","e","t","u","r","n"," ","t","h","e"," ","v","a","l","u","e"," ","f","o","r"," ","k","e",
        "y"," ","i","f"," ","k","e","y"," ","i","s"," ","i","n"," ","t","h","e"," ","d","i","c","t",
        "i","o","n","a","r","y",","," ","e","l","s","e"," ","d","e","f","a","u","l","t",".">>,
      (* 180: D.update([E, ]**F) -> None.  Update D from dict/iterable E and F. *)
      <<"D",".","u","p","d","a","t","e","(","[","E",","," ","]","*","*","F",")"," ","-",">"," ","N","o",
        "n","e","."," "," ","U","p","d","a","t","e"," ","D"," ","f","r","o","m"," ","d","i","c","t",
        "/","i","t","e","r","a","b","l","e"," ","E"," ","a","n","d"," ","F",".","\n","I","f"," ",
        "E"," ","i","s"," ","p","r","e","s","e","n","t"," ","a","n","d"," ","h","a","s"," ","a"," ",
        ".","k","e","y","s","(",")"," ","m","e","t","h","o","d",","," ","t","h","e","n"," ","d","o",
        "e","s",":"," "," ","f","o","r"," ","k"," ","i","n"," ","E",":"," ","D","[","k","]"," ","=",
        " ","E","[","k","]","\n","I","f"," ","E"," ","i","s"," ","p","r","e","s","e","n","t"," ",
        "a","n","d"," ","l","a","c","k","s"," ","a"," ",".","k","e","y","s","(",")"," ","m","e","t",
        "h","o","d",","," ","t","h","e","n"," ","d","o","e","s",":"," "," ","f","o","r"," ","k",",",
        " ","v"," ","i","n"," ","E",":"," ","D","[","k","]"," ","="," ","v","\n","I","n"," ","e",
        "i","t","h","e","r"," ","c","a","s","e",","," ","t","h","i","s"," ","i","s"," ","f","o","l",
        "l","o","w","e","d"," ","b","y",":"," ","f","o","r"," ","k"," ","i","n"," ","F",":"," "," ",
        "D","[","k","]"," ","="," ","F","[","k","]">>,
      (* 181: D.values() -> an object providing a view on D's values *)
      <<"D",".","v","a","l","u","e","s","(",")"," ","-",">"," ","a","n"," ","o","b","j","e","c","t"," ",
        "p","r","o","v","i","d","i","n","g"," ","a"," ","v","i","e","w"," ","o","n"," ","D","'","s",
        " ","v","a","l","u","e","s">>,
      (* 182: x.__contains__(y) <==> y in x. *)
      <<"x",".","_","_","c","o","n","t","a","i","n","s","_","_","(","y",")"," ","<","=","=",">"," ","y",
        " ","i","n"," ","x",".">>,
      (* 183: Return self&=value. *)
      <<"R","e","t","u","r","n"," ","s","e","l","f","&","=","v","a","l","u","e",".">>,
      (* 184: Return self-=value. *)
      <<"R","e","t","u","r","n"," ","s","e","l","f","-","=","v","a","l","u","e",".">>,
      (* 185: Return self^=value. *)
      <<"R","e","t","u","r","n"," ","s","e","l","f","^","=","v","a","l","u","e",".">>,
      (* 186: Return state information for pickling. *)
      <<"R","e","t","u","r","n"," ","s","t","a","t","e"," ","i","n","f","o","r","m","a","t","i","o","n",
        " ","f","o","r"," ","p","i","c","k","l","i","n","g",".">>,
      (* 187: S.__sizeof__() -> size of S in memory, in bytes *)
      <<"S",".","_","_","s","i","z","e","o","f","_","_","(",")"," ","-",">"," ","s","i","z","e"," ","o",
        "f"," ","S"," ","i","n"," ","m","e","m","o","r","y",","," ","i","n"," ","b","y","t","e","s"
        >>,
      (* 188: Add an element to a set. *)
      <<"A","d","d"," ","a","n"," ","e","l","e","m","e","n","t"," ","t","o"," ","a"," ","s","e","t",".",
        "\n","\n","T","h","i","s"," ","h","a","s"," ","n","o"," ","e","f","f","e","c","t"," ","i",
        "f"," ","t","h","e"," ","e","l","e","m","e","n","t"," ","i","s"," ","a","l","r","e","a","d",
        "y"," ","p","r","e","s","e","n","t",".">>,
      (* 189: Remove all elements from this set. *)
      <<"R","e","m","o","v","e"," ","a","l","l"," ","e","l","e","m","e","n","t","s"," ","f","r","o","m",
        " ","t","h","i","s"," ","s","e","t",".">>,
      (* 190: Return a shallow copy of a set. *)
      <<"R","e","t","u","r","n"," ","a"," ","s","h","a","l","l","o","w"," ","c","o","p","y"," ","o","f",
        " ","a"," ","s","e","t",".">>,
      (* 191: Return the difference of two or more sets as a new set. *)
      <<"R","e","t","u","r","n"," ","t","h","e"," ","d","i","f","f","e","r","e","n","c","e"," ","o","f",
        " ","t","w","o"," ","o","r"," ","m","o","r","e"," ","s","e","t","s"," ","a","s"," ","a"," ",
        "n","e","w"," ","s","e","t",".","\n","\n","(","i",".","e","."," ","a","l","l"," ","e","l",
        "e","m","e","n","t","s"," ","t","h","a","t"," ","a","r","e"," ","i","n"," ","t","h","i","s",
        " ","s","e","t"," ","b","u","t"," ","n","o","t"," ","t","h","e"," ","o","t","h","e","r","s",
        ".",")">>,
      (* 192: Remove all elements of another set from this set. *)
      <<"R","e","m","o","v","e"," ","a","l","l"," ","e","l","e","m","e","n","t","s"," ","o","f"," ","a",
        "n","o","t","h","e","r"," ","s","e","t"," ","f","r","o","m"," ","t","h","i","s"," ","s","e",
        "t",".">>,
      (* 193: Remove an element from a set if it is a member. *)
      <<"R","e","m","o","v","e"," ","a","n"," ","e","l","e","m","e","n","t"," ","f","r","o","m"," ","a",
        " ","s","e","t"," ","i","f"," ","i","t"," ","i","s"," ","a"," ","m","e","m","b","e","r",".",
        "\n","\n","U","n","l","i","k","e"," ","s","e","t",".","r","e","m","o","v","e","(",")",",",
        " ","t","h","e"," ","d","i","s","c","a","r","d","(",")"," ","m","e","t","h","o","d"," ","d",
        "o","e","s"," ","n","o","t"," ","r","a","i","s","e","\n","a","n"," ","e","x","c","e","p",
        "t","i","o","n"," ","w","h","e","n"," ","a","n"," ","e","l","e","m","e","n","t"," ","i","s",
        " ","m","i","s","s","i","n","g"," ","f","r","o","m"," ","t","h","e"," ","s","e","t",".">>,
      (* 194: Return the intersection of two sets as a new set. *)
      <<"R","e","t","u","r","n"," ","t","h","e"," ","i","n","t","e","r","s","e","c","t","i","o","n"," ",
        "o","f"," ","t","w","o"," ","s","e","t","s"," ","a","s"," ","a"," ","n","e","w"," ","s","e",
        "t",".","\n","\n","(","i",".","e","."," ","a","l","l"," ","e","l","e","m","e","n","t","s",
        " ","t","h","a","t"," ","a","r","e"," ","i","n"," ","b","o","t","h"," ","s","e","t","s",".",
        ")">>,
      (* 195: Update a set with the intersection of itself and another. *)
      <<"U","p","d","a","t","e"," ","a"," ","s","e","t"," ","w","i","t","h"," ","t","h","e"," ","i","n",
        "t","e","r","s","e","c","t","i","o","n"," ","o","f"," ","i","t","s","e","l","f"," ","a","n",
        "d"," ","a","n","o","t","h","e","r",".">>,
      (* 196: Return True if two sets have a null intersection. *)
      <<"R","e","t","u","r","n"," ","T","r","u","e"," ","i","f"," ","t","w","o"," ","s","e","t","s"," ",
        "h","a","v","e"," ","a"," ","n","u","l","l"," ","i","n","t","e","r","s","e","c","t","i","o",
        "n",".">>,
      (* 197: Report whether another set contains this set. *)
      <<"R","e","p","o","r","t"," ","w","h","e","t","h","e","r"," ","a","n","o","t","h","e","r"," ","s",
        "e","t"," ","c","o","n","t","a","i","n","s"," ","t","h","i","s"," ","s","e","t",".">>,
      (* 198: Report whether this set contains another set. *)
      <<"R","e","p","o","r","t"," ","w","h","e","t","h","e","r"," ","t","h","i","s"," ","s","e","t"," ",
        "c","o","n","t","a","i","n","s"," ","a","n","o","t","h","e","r"," ","s","e","t",".">>,
      (* 199: Remove and return an arbitrary set element. *)
      <<"R","e","m","o","v","e"," ","a","n","d"," ","r","e","t","u","r","n"," ","a","n"," ","a","r","b",
        "i","t","r","a","r","y"," ","s","e","t"," ","e","l","e","m","e","n","t",".","\n","R","a",
        "i","s","e","s"," ","K","e","y","E","r","r","o","r"," ","i","f"," ","t","h","e"," ","s","e",
        "t"," ","i","s"," ","e","m","p","t","y",".">>,
      (* 200: Remove an element from a set; it must be a member. *)
      <<"R","e","m","o","v","e"," ","a","n"," ","e","l","e","m","e","n","t"," ","f","r","o","m"," ","a",
        " ","s","e","t",";"," ","i","t"," ","m","u","s","t"," ","b","e"," ","a"," ","m","e","m","b",
        "e","r",".","\n","\n","I","f"," ","t","h","e"," ","e","l","e","m","e","n","t"," ","i","s",
        " ","n","o","t"," ","a"," ","m","e","m","b","e","r",","," ","r","a","i","s","e"," ","a"," ",
        "K","e","y","E","r","r","o","r",".">>,
      (* 201: Return the symmetric difference of two sets as a new set. *)
      <<"R","e","t","u","r","n"," ","t","h","e"," ","s","y","m","m","e","t","r","i","c"," ","d","i","f",
        "f","e","r","e","n","c","e"," ","o","f"," ","t","w","o"," ","s","e","t","s"," ","a","s"," ",
        "a"," ","n","e","w"," ","s","e","t",".","\n","\n","(","i",".","e","."," ","a","l","l"," ",
        "e","l","e","m","e","n","t","s"," ","t","h","a","t"," ","a","r","e"," ","i","n"," ","e","x",
        "a","c","t","l","y"," ","o","n","e"," ","o","f"," ","t","h","e"," ","s","e","t","s",".",")"
        >>,
      (* 202: Update a set with the symmetric difference of itself and another. *)
      <<"U","p","d","a","t","e"," ","a"," ","s","e","t"," ","w","i","t","h"," ","t","h","e"," ","s","y",
        "m","m","e","t","r","i","c"," ","d","i","f","f","e","r","e","n","c","e"," ","o","f"," ","i",
        "t","s","e","l","f"," ","a","n","d"," ","a","n","o","t","h","e","r",".">>,
      (* 203: Return the union of sets as a new set. *)
      <<"R","e","t","u","r","n"," ","t","h","e"," ","u","n","i","o","n"," ","o","f"," ","s","e","t","s",
        " ","a","s"," ","a"," ","n","e","w"," ","s","e","t",".","\n","\n","(","i",".","e","."," ",
        "a","l","l"," ","e","l","e","m","e","n","t","s"," ","t","h","a","t"," ","a","r","e"," ","i",
        "n"," ","e","i","t","h","e","r"," ","s","e","t",".",")">>,
      (* 204: Update a set with the union of itself and others. *)
      <<"U","p","d","a","t","e"," ","a"," ","s","e","t"," ","w","i","t","h"," ","t","h","e"," ","u","n",
        "i","o","n"," ","o","f"," ","i","t","s","e","l","f"," ","a","n","d"," ","o","t","h","e","r",
        "s",".">>,
      (* 205: Convert this value to exact type bytes. *)
      <<"C","o","n","v","e","r","t"," ","t","h","i","s"," ","v","a","l","u","e"," ","t","o"," ","e","x",
        "a","c","t"," ","t","y","p","e"," ","b","y","t","e","s",".">>,
      (* 206: B.capitalize() -> copy of B *)
      <<"B",".","c","a","p","i","t","a","l","i","z","e","(",")"," ","-",">"," ","c","o","p","y"," ","o",
        "f"," ","B","\n","\n","R","e","t","u","r","n"," ","a"," ","c","o","p","y"," ","o","f"," ",
        "B"," ","w","i","t","h"," ","o","n","l","y"," ","i","t","s"," ","f","i","r","s","t"," ","c",
        "h","a","r","a","c","t","e","r"," ","c","a","p","i","t","a","l","i","z","e","d"," ","(","A",
        "S","C","I","I",")","\n","a","n","d"," ","t","h","e"," ","r","e","s","t"," ","l","o","w",
        "e","r","-","c","a","s","e","d",".">>,
      (* 207: Return a centered string of length width. *)
      <<"R","e","t","u","r","n"," ","a"," ","c","e","n","t","e","r","e","d"," ","s","t","r","i","n","g",
        " ","o","f"," ","l","e","n","g","t","h"," ","w","i","d","t","h",".","\n","\n","P","a","d",
        "d","i","n","g"," ","i","s"," ","d","o","n","e"," ","u","s","i","n","g"," ","t","h","e"," ",
        "s","p","e","c","i","f","i","e","d"," ","f","i","l","l"," ","c","h","a","r","a","c","t","e",
        "r",".">>,
      (* 208: B.count(sub[, start[, end]]) -> int *)
      <<"B",".","c","o","u","n","t","(","s","u","b","[",","," ","s","t","a","r","t","[",","," ","e","n",
        "d","]","]",")"," ","-",">"," ","i","n","t","\n","\n","R","e","t","u","r","n"," ","t","h",
        "e"," ","n","u","m","b","e","r"," ","o","f"," ","n","o","n","-","o","v","e","r","l","a","p",
        "p","i","n","g"," ","o","c","c","u","r","r","e","n","c","e","s"," ","o","f"," ","s","u","b",
        "s","e","c","t","i","o","n"," ","s","u","b"," ","i","n","\n","b","y","t","e","s"," ","B",
        "[","s","t","a","r","t",":","e","n","d","]","."," "," ","O","p","t","i","o","n","a","l"," ",
        "a","r","g","u","m","e","n","t","s"," ","s","t","a","r","t"," ","a","n","d"," ","e","n","d",
        " ","a","r","e"," ","i","n","t","e","r","p","r","e","t","e","d","\n","a","s"," ","i","n",
        " ","s","l","i","c","e"," ","n","o","t","a","t","i","o","n",".">>,
      (* 209: Decode the bytes using the codec registered for encoding. *)
      <<"D","e","c","o","d","e"," ","t","h","e"," ","b","y","t","e","s"," ","u","s","i","n","g"," ","t",
        "h","e"," ","c","o","d","e","c"," ","r","e","g","i","s","t","e","r","e","d"," ","f","o","r",
        " ","e","n","c","o","d","i","n","g",".","\n","\n","e","n","c","o","d","i","n","g","\n"," ",
        " ","T","h","e"," ","e","n","c","o","d","i","n","g"," ","w","i","t","h"," ","w","h","i","c",
        "h"," ","t","o"," ","d","e","c","o","d","e"," ","t","h","e"," ","b","y","t","e","s",".",
        "\n","e","r","r","o","r","s","\n"," "," ","T","h","e"," ","e","r","r","o","r"," ","h","a",
        "n","d","l","i","n","g"," ","s","c","h","e","m","e"," ","t","o"," ","u","s","e"," ","f","o",
        "r"," ","t","h","e"," ","h","a","n","d","l","i","n","g"," ","o","f"," ","d","e","c","o","d",
        "i","n","g"," ","e","r","r","o","r","s",".","\n"," "," ","T","h","e"," ","d","e","f","a",
        "u","l","t"," ","i","s"," ","'","s","t","r","i","c","t","'"," ","m","e","a","n","i","n","g",
        " ","t","h","a","t"," ","d","e","c","o","d","i","n","g"," ","e","r","r","o","r","s"," ","r",
        "a","i","s","e"," ","a","\n"," "," ","U","n","i","c","o","d","e","D","e","c","o","d","e",
        "E","r","r","o","r","."," ","O","t","h","e","r"," ","p","o","s","s","i","b","l","e"," ","v",
        "a","l","u","e","s"," ","a","r","e"," ","'","i","g","n","o","r","e","'"," ","a","n","d"," ",
        "'","r","e","p","l","a","c","e","'","\n"," "," ","a","s"," ","w","e","l","l"," ","a","s",
        " ","a","n","y"," ","o","t","h","e","r"," ","n","a","m","e"," ","r","e","g","i","s","t","e",
        "r","e","d"," ","w","i","t","h"," ","c","o","d","e","c","s",".","r","e","g","i","s","t","e",
        "r","_","e","r","r","o","r"," ","t","h","a","t","\n"," "," ","c","a","n"," ","h","a","n",
        "d","l","e"," ","U","n","i","c","o","d","e","D","e","c","o","d","e","E","r","r","o","r","s",
        ".">>,
      (* 210: B.endswith(suffix[, start[, end]]) -> bool *)
      <<"B",".","e","n","d","s","w","i","t","h","(","s","u","f","f","i","x","[",","," ","s","t","a","r",
        "t","[",","," ","e","n","d","]","]",")"," ","-",">"," ","b","o","o","l","\n","\n","R","e",
        "t","u","r","n"," ","T","r","u","e"," ","i","f"," ","B"," ","e","n","d","s"," ","w","i","t",
        "h"," ","t","h","e"," ","s","p","e","c","i","f","i","e","d"," ","s","u","f","f","i","x",",",
        " ","F","a","l","s","e"," ","o","t","h","e","r","w","i","s","e",".","\n","W","i","t","h",
        " ","o","p","t","i","o","n","a","l"," ","s","t","a","r","t",","," ","t","e","s","t"," ","B",
        " ","b","e","g","i","n","n","i","n","g"," ","a","t"," ","t","h","a","t"," ","p","o","s","i",
        "t","i","o","n",".","\n","W","i","t","h"," ","o","p","t","i","o","n","a","l"," ","e","n",
        "d",","," ","s","t","o","p"," ","c","o","m","p","a","r","i","n","g"," ","B"," ","a","t"," ",
        "t","h","a","t"," ","p","o","s","i","t","i","o","n",".","\n","s","u","f","f","i","x"," ",
        "c","a","n"," ","a","l","s","o"," ","b","e"," ","a"," ","t","u","p","l","e"," ","o","f"," ",
        "b","y","t","e","s"," ","t","o"," ","t","r","y",".">>,
      (* 211: B.find(sub[, start[, end]]) -> int *)
      <<"B",".","f","i","n","d","(","s","u","b","[",","," ","s","t","a","r","t","[",","," ","e","n","d",
        "]","]",")"," ","-",">"," ","i","n","t","\n","\n","R","e","t","u","r","n"," ","t","h","e",
        " ","l","o","w","e","s","t"," ","i","n","d","e","x"," ","i","n"," ","B"," ","w","h","e","r",
        "e"," ","s","u","b","s","e","c","t","i","o","n"," ","s","u","b"," ","i","s"," ","f","o","u",
        "n","d",",","\n","s","u","c","h"," ","t","h","a","t"," ","s","u","b"," ","i","s"," ","c",
        "o","n","t","a","i","n","e","d"," ","w","i","t","h","i","n"," ","B","[","s","t","a","r","t",
        ",","e","n","d","]","."," "," ","O","p","t","i","o","n","a","l","\n","a","r","g","u","m",
        "e","n","t","s"," ","s","t","a","r","t"," ","a","n","d"," ","e","n","d"," ","a","r","e"," ",
        "i","n","t","e","r","p","r","e","t","e","d"," ","a","s"," ","i","n"," ","s","l","i","c","e",
        " ","n","o","t","a","t","i","o","n",".","\n","\n","R","e","t","u","r","n"," ","-","1"," ",
        "o","n"," ","f","a","i","l","u","r","e",".">>,
      (* 212: Create a bytes object from a string of hexadecimal numbers. *)
      <<"C","r","e","a","t","e"," ","a"," ","b","y","t","e","s"," ","o","b","j","e","c","t"," ","f","r",
        "o","m"," ","a"," ","s","t","r","i","n","g"," ","o","f"," ","h","e","x","a","d","e","c","i",
        "m","a","l"," ","n","u","m","b","e","r","s",".","\n","\n","S","p","a","c","e","s"," ","b",
        "e","t","w","e","e","n"," ","t","w","o"," ","n","u","m","b","e","r","s"," ","a","r","e"," ",
        "a","c","c","e","p","t","e","d",".","\n","E","x","a","m","p","l","e",":"," ","b","y","t",
        "e","s",".","f","r","o","m","h","e","x","(","'","B","9"," ","0","1","E","F","'",")"," ","-",
        ">"," ","b","'","\\","\\","x","b","9","\\","\\","x","0","1","\\","\\","x","e","f","'",".">>,
      (* 213: Create a string of hexadecimal numbers from a bytes object. *)
      <<"C","r","e","a","t","e"," ","a"," ","s","t","r","i","n","g"," ","o","f"," ","h","e","x","a","d",
        "e","c","i","m","a","l"," ","n","u","m","b","e","r","s"," ","f","r","o","m"," ","a"," ","b",
        "y","t","e","s"," ","o","b","j","e","c","t",".","\n","\n"," "," ","s","e","p","\n"," "," ",
        " "," ","A","n"," ","o","p","t","i","o","n","a","l"," ","s","i","n","g","l","e"," ","c","h",
        "a","r","a","c","t","e","r"," ","o","r"," ","b","y","t","e"," ","t","o"," ","s","e","p","a",
        "r","a","t","e"," ","h","e","x"," ","b","y","t","e","s",".","\n"," "," ","b","y","t","e",
        "s","_","p","e","r","_","s","e","p","\n"," "," "," "," ","H","o","w"," ","m","a","n","y",
        " ","b","y","t","e","s"," ","b","e","t","w","e","e","n"," ","s","e","p","a","r","a","t","o",
        "r","s","."," "," ","P","o","s","i","t","i","v","e"," ","v","a","l","u","e","s"," ","c","o",
        "u","n","t"," ","f","r","o","m"," ","t","h","e","\n"," "," "," "," ","r","i","g","h","t",
        ","," ","n","e","g","a","t","i","v","e"," ","v","a","l","u","e","s"," ","c","o","u","n","t",
        " ","f","r","o","m"," ","t","h","e"," ","l","e","f","t",".","\n","\n","E","x","a","m","p",
        "l","e",":","\n",">",">",">"," ","v","a","l","u","e"," ","="," ","b","'","\\","x","b","9",
        "\\","x","0","1","\\","x","e","f","'","\n",">",">",">"," ","v","a","l","u","e",".","h","e",
        "x","(",")","\n","'","b","9","0","1","e","f","'","\n",">",">",">"," ","v","a","l","u","e",
        ".","h","e","x","(","'",":","'",")","\n","'","b","9",":","0","1",":","e","f","'","\n",">",
        ">",">"," ","v","a","l","u","e",".","h","e","x","(","'",":","'",","," ","2",")","\n","'",
        "b","9",":","0","1","e","f","'","\n",">",">",">"," ","v","a","l","u","e",".","h","e","x",
        "(","'",":","'",","," ","-","2",")","\n","'","b","9","0","1",":","e","f","'">>,
      (* 214: B.index(sub[, start[, end]]) -> int *)
      <<"B",".","i","n","d","e","x","(","s","u","b","[",","," ","s","t","a","r","t","[",","," ","e","n",
        "d","]","]",")"," ","-",">"," ","i","n","t","\n","\n","R","e","t","u","r","n"," ","t","h",
        "e"," ","l","o","w","e","s","t"," ","i","n","d","e","x"," ","i","n"," ","B"," ","w","h","e",
        "r","e"," ","s","u","b","s","e","c","t","i","o","n"," ","s","u","b"," ","i","s"," ","f","o",
        "u","n","d",",","\n","s","u","c","h"," ","t","h","a","t"," ","s","u","b"," ","i","s"," ",
        "c","o","n","t","a","i","n","e","d"," ","w","i","t","h","i","n"," ","B","[","s","t","a","r",
        "t",",","e","n","d","]","."," "," ","O","p","t","i","o","n","a","l","\n","a","r","g","u",
        "m","e","n","t","s"," ","s","t","a","r","t"," ","a","n","d"," ","e","n","d"," ","a","r","e",
        " ","i","n","t","e","r","p","r","e","t","e","d"," ","a","s"," ","i","n"," ","s","l","i","c",
        "e"," ","n","o","t","a","t","i","o","n",".","\n","\n","R","a","i","s","e","s"," ","V","a",
        "l","u","e","E","r","r","o","r"," ","w","h","e","n"," ","t","h","e"," ","s","u","b","s","e",
        "c","t","i","o","n"," ","i","s"," ","n","o","t"," ","f","o","u","n","d",".">>,
      (* 215: B.isalnum() -> bool *)
      <<"B",".","i","s","a","l","n","u","m","(",")"," ","-",">"," ","b","o","o","l","\n","\n","R","e","t",
        "u","r","n"," ","T","r","u","e"," ","i","f"," ","a","l","l"," ","c","h","a","r","a","c","t",
        "e","r","s"," ","i","n"," ","B"," ","a","r","e"," ","a","l","p","h","a","n","u","m","e","r",
        "i","c","\n","a","n","d"," ","t","h","e","r","e"," ","i","s"," ","a","t"," ","l","e","a",
        "s","t"," ","o","n","e"," ","c","h","a","r","a","c","t","e","r"," ","i","n"," ","B",","," ",
        "F","a","l","s","e"," ","o","t","h","e","r","w","i","s","e",".">>,
      (* 216: B.isalpha() -> bool *)
      <<"B",".","i","s","a","l","p","h","a","(",")"," ","-",">"," ","b","o","o","l","\n","\n","R","e","t",
        "u","r","n"," ","T","r","u","e"," ","i","f"," ","a","l","l"," ","c","h","a","r","a","c","t",
        "e","r","s"," ","i","n"," ","B"," ","a","r","e"," ","a","l","p","h","a","b","e","t","i","c",
        "\n","a","n","d"," ","t","h","e","r","e"," ","i","s"," ","a","t"," ","l","e","a","s","t",
        " ","o","n","e"," ","c","h","a","r","a","c","t","e","r"," ","i","n"," ","B",","," ","F","a",
        "l","s","e"," ","o","t","h","e","r","w","i","s","e",".">>,
      (* 217: B.isascii() -> bool *)
      <<"B",".","i","s","a","s","c","i","i","(",")"," ","-",">"," ","b","o","o","l","\n","\n","R","e","t",
        "u","r","n"," ","T","r","u","e"," ","i","f"," ","B"," ","i","s"," ","e","m","p","t","y"," ",
        "o","r"," ","a","l","l"," ","c","h","a","r","a","c","t","e","r","s"," ","i","n"," ","B"," ",
        "a","r","e"," ","A","S","C","I","I",",","\n","F","a","l","s","e"," ","o","t","h","e","r",
        "w","i","s","e",".">>,
      (* 218: B.isdigit() -> bool *)
      <<"B",".","i","s","d","i","g","i","t","(",")"," ","-",">"," ","b","o","o","l","\n","\n","R","e","t",
        "u","r","n"," ","T","r","u","e"," ","i","f"," ","a","l","l"," ","c","h","a","r","a","c","t",
        "e","r","s"," ","i","n"," ","B"," ","a","r","e"," ","d","i","g","i","t","s","\n","a","n",
        "d"," ","t","h","e","r","e"," ","i","s"," ","a","t"," ","l","e","a","s","t"," ","o","n","e",
        " ","c","h","a","r","a","c","t","e","r"," ","i","n"," ","B",","," ","F","a","l","s","e"," ",
        "o","t","h","e","r","w","i","s","e",".">>,
      (* 219: B.islower() -> bool *)
      <<"B",".","i","s","l","o","w","e","r","(",")"," ","-",">"," ","b","o","o","l","\n","\n","R","e","t",
        "u","r","n"," ","T","r","u","e"," ","i","f"," ","a","l","l"," ","c","a","s","e","d"," ","c",
        "h","a","r","a","c","t","e","r","s"," ","i","n"," ","B"," ","a","r","e"," ","l","o","w","e",
        "r","c","a","s","e"," ","a","n","d"," ","t","h","e","r","e"," ","i","s","\n","a","t"," ",
        "l","e","a","s","t"," ","o","n","e"," ","c","a","s","e","d"," ","c","h","a","r","a","c","t",
        "e","r"," ","i","n"," ","B",","," ","F","a","l","s","e"," ","o","t","h","e","r","w","i","s",
        "e",".">>,
      (* 220: B.isspace() -> bool *)
      <<"B",".","i","s","s","p","a","c","e","(",")"," ","-",">"," ","b","o","o","l","\n","\n","R","e","t",
        "u","r","n"," ","T","r","u","e"," ","i","f"," ","a","l","l"," ","c","h","a","r","a","c","t",
        "e","r","s"," ","i","n"," ","B"," ","a","r","e"," ","w","h","i","t","e","s","p","a","c","e",
        "\n","a","n","d"," ","t","h","e","r","e"," ","i","s"," ","a","t"," ","l","e","a","s","t",
        " ","o","n","e"," ","c","h","a","r","a","c","t","e","r"," ","i","n"," ","B",","," ","F","a",
        "l","s","e"," ","o","t","h","e","r","w","i","s","e",".">>,
      (* 221: B.istitle() -> bool *)
      <<"B",".","i","s","t","i","t","l","e","(",")"," ","-",">"," ","b","o","o","l","\n","\n","R","e","t",
        "u","r","n"," ","T","r","u","e"," ","i","f"," ","B"," ","i","s"," ","a"," ","t","i","t","l",
        "e","c","a","s","e","d"," ","s","t","r","i","n","g"," ","a","n","d"," ","t","h","e","r","e",
        " ","i","s"," ","a","t"," ","l","e","a","s","t"," ","o","n","e","\n","c","h","a","r","a",
        "c","t","e","r"," ","i","n"," ","B",","," ","i",".","e","."," ","u","p","p","e","r","c","a",
        "s","e"," ","c","h","a","r","a","c","t","e","r","s"," ","m","a","y"," ","o","n","l","y"," ",
        "f","o","l","l","o","w"," ","u","n","c","a","s","e","d","\n","c","h","a","r","a","c","t",
        "e","r","s"," ","a","n","d"," ","l","o","w","e","r","c","a","s","e"," ","c","h","a","r","a",
        "c","t","e","r","s"," ","o","n","l","y"," ","c","a","s","e","d"," ","o","n","e","s","."," ",
        "R","e","t","u","r","n"," ","F","a","l","s","e","\n","o","t","h","e","r","w","i","s","e","."
        >>,
      (* 222: B.isupper() -> bool *)
      <<"B",".","i","s","u","p","p","e","r","(",")"," ","-",">"," ","b","o","o","l","\n","\n","R","e","t",
        "u","r","n"," ","T","r","u","e"," ","i","f"," ","a","l","l"," ","c","a","s","e","d"," ","c",
        "h","a","r","a","c","t","e","r","s"," ","i","n"," ","B"," ","a","r","e"," ","u","p","p","e",
        "r","c","a","s","e"," ","a","n","d"," ","t","h","e","r","e"," ","i","s","\n","a","t"," ",
        "l","e","a","s","t"," ","o","n","e"," ","c","a","s","e","d"," ","c","h","a","r","a","c","t",
        "e","r"," ","i","n"," ","B",","," ","F","a","l","s","e"," ","o","t","h","e","r","w","i","s",
        "e",".">>,
      (* 223: Concatenate any number of bytes objects. *)
      <<"C","o","n","c","a","t","e","n","a","t","e"," ","a","n","y"," ","n","u","m","b","e","r"," ","o",
        "f"," ","b","y","t","e","s"," ","o","b","j","e","c","t","s",".","\n","\n","T","h","e"," ",
        "b","y","t","e","s"," ","w","h","o","s","e"," ","m","e","t","h","o","d"," ","i","s"," ","c",
        "a","l","l","e","d"," ","i","s"," ","i","n","s","e","r","t","e","d"," ","i","n"," ","b","e",
        "t","w","e","e","n"," ","e","a","c","h"," ","p","a","i","r",".","\n","\n","T","h","e"," ",
        "r","e","s","u","l","t"," ","i","s"," ","r","e","t","u","r","n","e","d"," ","a","s"," ","a",
        " ","n","e","w"," ","b","y","t","e","s"," ","o","b","j","e","c","t",".","\n","\n","E","x",
        "a","m","p","l","e",":"," ","b","'",".","'",".","j","o","i","n","(","[","b","'","a","b","'",
        ","," ","b","'","p","q","'",","," ","b","'","r","s","'","]",")"," ","-",">"," ","b","'","a",
        "b",".","p","q",".","r","s","'",".">>,
      (* 224: Return a left-justified string of length width. *)
      <<"R","e","t","u","r","n"," ","a"," ","l","e","f","t","-","j","u","s","t","i","f","i","e","d"," ",
        "s","t","r","i","n","g"," ","o","f"," ","l","e","n","g","t","h"," ","w","i","d","t","h",".",
        "\n","\n","P","a","d","d","i","n","g"," ","i","s"," ","d","o","n","e"," ","u","s","i","n",
        "g"," ","t","h","e"," ","s","p","e","c","i","f","i","e","d"," ","f","i","l","l"," ","c","h",
        "a","r","a","c","t","e","r",".">>,
      (* 225: B.lower() -> copy of B *)
      <<"B",".","l","o","w","e","r","(",")"," ","-",">"," ","c","o","p","y"," ","o","f"," ","B","\n","\n",
        "R","e","t","u","r","n"," ","a"," ","c","o","p","y"," ","o","f"," ","B"," ","w","i","t","h",
        " ","a","l","l"," ","A","S","C","I","I"," ","c","h","a","r","a","c","t","e","r","s"," ","c",
        "o","n","v","e","r","t","e","d"," ","t","o"," ","l","o","w","e","r","c","a","s","e",".">>,
      (* 226: Strip leading bytes contained in the argument. *)
      <<"S","t","r","i","p"," ","l","e","a","d","i","n","g"," ","b","y","t","e","s"," ","c","o","n","t",
        "a","i","n","e","d"," ","i","n"," ","t","h","e"," ","a","r","g","u","m","e","n","t",".",
        "\n","\n","I","f"," ","t","h","e"," ","a","r","g","u","m","e","n","t"," ","i","s"," ","o",
        "m","i","t","t","e","d"," ","o","r"," ","N","o","n","e",","," ","s","t","r","i","p"," ","l",
        "e","a","d","i","n","g"," "," ","A","S","C","I","I"," ","w","h","i","t","e","s","p","a","c",
        "e",".">>,
      (* 227: Return a translation table useable for the bytes or bytearray translat *)
      <<"R","e","t","u","r","n"," ","a"," ","t","r","a","n","s","l","a","t","i","o","n"," ","t","a","b",
        "l","e"," ","u","s","e","a","b","l","e"," ","f","o","r"," ","t","h","e"," ","b","y","t","e",
        "s"," ","o","r"," ","b","y","t","e","a","r","r","a","y"," ","t","r","a","n","s","l","a","t",
        "e"," ","m","e","t","h","o","d",".","\n","\n","T","h","e"," ","r","e","t","u","r","n","e",
        "d"," ","t","a","b","l","e"," ","w","i","l","l"," ","b","e"," ","o","n","e"," ","w","h","e",
        "r","e"," ","e","a","c","h"," ","b","y","t","e"," ","i","n"," ","f","r","m"," ","i","s"," ",
        "m","a","p","p","e","d"," ","t","o"," ","t","h","e"," ","b","y","t","e"," ","a","t","\n",
        "t","h","e"," ","s","a","m","e"," ","p","o","s","i","t","i","o","n"," ","i","n"," ","t","o",
        ".","\n","\n","T","h","e"," ","b","y","t","e","s"," ","o","b","j","e","c","t","s"," ","f",
        "r","m"," ","a","n","d"," ","t","o"," ","m","u","s","t"," ","b","e"," ","o","f"," ","t","h",
        "e"," ","s","a","m","e"," ","l","e","n","g","t","h",".">>,
      (* 228: Partition the bytes into three parts using the given separator. *)
      <<"P","a","r","t","i","t","i","o","n"," ","t","h","e"," ","b","y","t","e","s"," ","i","n","t","o",
        " ","t","h","r","e","e"," ","p","a","r","t","s"," ","u","s","i","n","g"," ","t","h","e"," ",
        "g","i","v","e","n"," ","s","e","p","a","r","a","t","o","r",".","\n","\n","T","h","i","s",
        " ","w","i","l","l"," ","s","e","a","r","c","h"," ","f","o","r"," ","t","h","e"," ","s","e",
        "p","a","r","a","t","o","r"," ","s","e","p"," ","i","n"," ","t","h","e"," ","b","y","t","e",
        "s","."," ","I","f"," ","t","h","e"," ","s","e","p","a","r","a","t","o","r"," ","i","s"," ",
        "f","o","u","n","d",",","\n","r","e","t","u","r","n","s"," ","a"," ","3","-","t","u","p",
        "l","e"," ","c","o","n","t","a","i","n","i","n","g"," ","t","h","e"," ","p","a","r","t"," ",
        "b","e","f","o","r","e"," ","t","h","e"," ","s","e","p","a","r","a","t","o","r",","," ","t",
        "h","e"," ","s","e","p","a","r","a","t","o","r","\n","i","t","s","e","l","f",","," ","a",
        "n","d"," ","t","h","e"," ","p","a","r","t"," ","a","f","t","e","r"," ","i","t",".","\n",
        "\n","I","f"," ","t","h","e"," ","s","e","p","a","r","a","t","o","r"," ","i","s"," ","n",
        "o","t"," ","f","o","u","n","d",","," ","r","e","t","u","r","n","s"," ","a"," ","3","-","t",
        "u","p","l","e"," ","c","o","n","t","a","i","n","i","n","g"," ","t","h","e"," ","o","r","i",
        "g","i","n","a","l"," ","b","y","t","e","s","\n","o","b","j","e","c","t"," ","a","n","d",
        " ","t","w","o"," ","e","m","p","t","y"," ","b","y","t","e","s"," ","o","b","j","e","c","t",
        "s",".">>,
      (* 229: Return a bytes object with the given prefix string removed if present. *)
      <<"R","e","t","u","r","n"," ","a"," ","b","y","t","e","s"," ","o","b","j","e","c","t"," ","w","i",
        "t","h"," ","t","h","e"," ","g","i","v","e","n"," ","p","r","e","f","i","x"," ","s","t","r",
        "i","n","g"," ","r","e","m","o","v","e","d"," ","i","f"," ","p","r","e","s","e","n","t",".",
        "\n","\n","I","f"," ","t","h","e"," ","b","y","t","e","s"," ","s","t","a","r","t","s"," ",
        "w","i","t","h"," ","t","h","e"," ","p","r","e","f","i","x"," ","s","t","r","i","n","g",",",
        " ","r","e","t","u","r","n"," ","b","y","t","e","s","[","l","e","n","(","p","r","e","f","i",
        "x",")",":","]",".","\n","O","t","h","e","r","w","i","s","e",","," ","r","e","t","u","r",
        "n"," ","a"," ","c","o","p","y"," ","o","f"," ","t","h","e"," ","o","r","i","g","i","n","a",
        "l"," ","b","y","t","e","s",".">>,
      (* 230: Return a bytes object with the given suffix string removed if present. *)
      <<"R","e","t","u","r","n"," ","a"," ","b","y","t","e","s"," ","o","b","j","e","c","t"," ","w","i",
        "t","h"," ","t","h","e"," ","g","i","v","e","n"," ","s","u","f","f","i","x"," ","s","t","r",
        "i","n","g"," ","r","e","m","o","v","e","d"," ","i","f"," ","p","r","e","s","e","n","t",".",
        "\n","\n","I","f"," ","t","h","e"," ","b","y","t","e","s"," ","e","n","d","s"," ","w","i",
        "t","h"," ","t","h","e"," ","s","u","f","f","i","x"," ","s","t","r","i","n","g"," ","a","n",
        "d"," ","t","h","a","t"," ","s","u","f","f","i","x"," ","i","s"," ","n","o","t"," ","e","m",
        "p","t","y",",","\n","r","e","t","u","r","n"," ","b","y","t","e","s","[",":","-","l","e",
        "n","(","p","r","e","f","i","x",")","]","."," "," ","O","t","h","e","r","w","i","s","e",",",
        " ","r","e","t","u","r","n"," ","a"," ","c","o","p","y"," ","o","f"," ","t","h","e"," ","o",
        "r","i","g","i","n","a","l","\n","b","y","t","e","s",".">>,
      (* 231: B.rfind(sub[, start[, end]]) -> int *)
      <<"B",".","r","f","i","n","d","(","s","u","b","[",","," ","s","t","a","r","t","[",","," ","e","n",
        "d","]","]",")"," ","-",">"," ","i","n","t","\n","\n","R","e","t","u","r","n"," ","t","h",
        "e"," ","h","i","g","h","e","s","t"," ","i","n","d","e","x"," ","i","n"," ","B"," ","w","h",
        "e","r","e"," ","s","u","b","s","e","c","t","i","o","n"," ","s","u","b"," ","i","s"," ","f",
        "o","u","n","d",",","\n","s","u","c","h"," ","t","h","a","t"," ","s","u","b"," ","i","s",
        " ","c","o","n","t","a","i","n","e","d"," ","w","i","t","h","i","n"," ","B","[","s","t","a",
        "r","t",",","e","n","d","]","."," "," ","O","p","t","i","o","n","a","l","\n","a","r","g",
        "u","m","e","n","t","s"," ","s","t","a","r","t"," ","a","n","d"," ","e","n","d"," ","a","r",
        "e"," ","i","n","t","e","r","p","r","e","t","e","d"," ","a","s"," ","i","n"," ","s","l","i",
        "c","e"," ","n","o","t","a","t","i","o","n",".","\n","\n","R","e","t","u","r","n"," ","-",
        "1"," ","o","n"," ","f","a","i","l","u","r","e",".">>,
      (* 232: B.rindex(sub[, start[, end]]) -> int *)
      <<"B",".","r","i","n","d","e","x","(","s","u","b","[",","," ","s","t","a","r","t","[",","," ","e",
        "n","d","]","]",")"," ","-",">"," ","i","n","t","\n","\n","R","e","t","u","r","n"," ","t",
        "h","e"," ","h","i","g","h","e","s","t"," ","i","n","d","e","x"," ","i","n"," ","B"," ","w",
        "h","e","r","e"," ","s","u","b","s","e","c","t","i","o","n"," ","s","u","b"," ","i","s"," ",
        "f","o","u","n","d",",","\n","s","u","c","h"," ","t","h","a","t"," ","s","u","b"," ","i",
        "s"," ","c","o","n","t","a","i","n","e","d"," ","w","i","t","h","i","n"," ","B","[","s","t",
        "a","r","t",",","e","n","d","]","."," "," ","O","p","t","i","o","n","a","l","\n","a","r",
        "g","u","m","e","n","t","s"," ","s","t","a","r","t"," ","a","n","d"," ","e","n","d"," ","a",
        "r","e"," ","i","n","t","e","r","p","r","e","t","e","d"," ","a","s"," ","i","n"," ","s","l",
        "i","c","e"," ","n","o","t","a","t","i","o","n",".","\n","\n","R","a","i","s","e"," ","V",
        "a","l","u","e","E","r","r","o","r"," ","w","h","e","n"," ","t","h","e"," ","s","u","b","s",
        "e","c","t","i","o","n"," ","i","s"," ","n","o","t"," ","f","o","u","n","d",".">>,
      (* 233: Return a right-justified string of length width. *)
      <<"R","e","t","u","r","n"," ","a"," ","r","i","g","h","t","-","j","u","s","t","i","f","i","e","d",
        " ","s","t","r","i","n","g"," ","o","f"," ","l","e","n","g","t","h"," ","w","i","d","t","h",
        ".","\n","\n","P","a","d","d","i","n","g"," ","i","s"," ","d","o","n","e"," ","u","s","i",
        "n","g"," ","t","h","e"," ","s","p","e","c","i","f","i","e","d"," ","f","i","l","l"," ","c",
        "h","a","r","a","c","t","e","r",".">>,
      (* 234: Partition the bytes into three parts using the given separator. *)
      <<"P","a","r","t","i","t","i","o","n"," ","t","h","e"," ","b","y","t","e","s"," ","i","n","t","o",
        " ","t","h","r","e","e"," ","p","a","r","t","s"," ","u","s","i","n","g"," ","t","h","e"," ",
        "g","i","v","e","n"," ","s","e","p","a","r","a","t","o","r",".","\n","\n","T","h","i","s",
        " ","w","i","l","l"," ","s","e","a","r","c","h"," ","f","o","r"," ","t","h","e"," ","s","e",
        "p","a","r","a","t","o","r"," ","s","e","p"," ","i","n"," ","t","h","e"," ","b","y","t","e",
        "s",","," ","s","t","a","r","t","i","n","g"," ","a","t"," ","t","h","e"," ","e","n","d",".",
        " ","I","f","\n","t","h","e"," ","s","e","p","a","r","a","t","o","r"," ","i","s"," ","f",
        "o","u","n","d",","," ","r","e","t","u","r","n","s"," ","a"," ","3","-","t","u","p","l","e",
        " ","c","o","n","t","a","i","n","i","n","g"," ","t","h","e"," ","p","a","r","t"," ","b","e",
        "f","o","r","e"," ","t","h","e","\n","s","e","p","a","r","a","t","o","r",","," ","t","h",
        "e"," ","s","e","p","a","r","a","t","o","r"," ","i","t","s","e","l","f",","," ","a","n","d",
        " ","t","h","e"," ","p","a","r","t"," ","a","f","t","e","r"," ","i","t",".","\n","\n","I",
        "f"," ","t","h","e"," ","s","e","p","a","r","a","t","o","r"," ","i","s"," ","n","o","t"," ",
        "f","o","u","n","d",","," ","r","e","t","u","r","n","s"," ","a"," ","3","-","t","u","p","l",
        "e"," ","c","o","n","t","a","i","n","i","n","g"," ","t","w","o"," ","e","m","p","t","y"," ",
        "b","y","t","e","s","\n","o","b","j","e","c","t","s"," ","a","n","d"," ","t","h","e"," ",
        "o","r","i","g","i","n","a","l"," ","b","y","t","e","s"," ","o","b","j","e","c","t",".">>,
      (* 235: Return a list of the sections in the bytes, using sep as the delimiter *)
      <<"R","e","t","u","r","n"," ","a"," ","l","i","s","t"," ","o","f"," ","t","h","e"," ","s","e","c",
        "t","i","o","n","s"," ","i","n"," ","t","h","e"," ","b","y","t","e","s",","," ","u","s","i",
        "n","g"," ","s","e","p"," ","a","s"," ","t","h","e"," ","d","e","l","i","m","i","t","e","r",
        ".","\n","\n"," "," ","s","e","p","\n"," "," "," "," ","T","h","e"," ","d","e","l","i","m",
        "i","t","e","r"," ","a","c","c","o","r","d","i","n","g"," ","w","h","i","c","h"," ","t","o",
        " ","s","p","l","i","t"," ","t","h","e"," ","b","y","t","e","s",".","\n"," "," "," "," ",
        "N","o","n","e"," ","(","t","h","e"," ","d","e","f","a","u","l","t"," ","v","a","l","u","e",
        ")"," ","m","e","a","n","s"," ","s","p","l","i","t"," ","o","n"," ","A","S","C","I","I"," ",
        "w","h","i","t","e","s","p","a","c","e"," ","c","h","a","r","a","c","t","e","r","s","\n",
        " "," "," "," ","(","s","p","a","c","e",","," ","t","a","b",","," ","r","e","t","u","r","n",
        ","," ","n","e","w","l","i","n","e",","," ","f","o","r","m","f","e","e","d",","," ","v","e",
        "r","t","i","c","a","l"," ","t","a","b",")",".","\n"," "," ","m","a","x","s","p","l","i",
        "t","\n"," "," "," "," ","M","a","x","i","m","u","m"," ","n","u","m","b","e","r"," ","o",
        "f"," ","s","p","l","i","t","s"," ","t","o"," ","d","o",".","\n"," "," "," "," ","-","1",
        " ","(","t","h","e"," ","d","e","f","a","u","l","t"," ","v","a","l","u","e",")"," ","m","e",
        "a","n","s"," ","n","o"," ","l","i","m","i","t",".","\n","\n","S","p","l","i","t","t","i",
        "n","g"," ","i","s"," ","d","o","n","e"," ","s","t","a","r","t","i","n","g"," ","a","t"," ",
        "t","h","e"," ","e","n","d"," ","o","f"," ","t","h","e"," ","b","y","t","e","s"," ","a","n",
        "d"," ","w","o","r","k","i","n","g"," ","t","o"," ","t","h","e"," ","f","r","o","n","t","."
        >>,
      (* 236: Strip trailing bytes contained in the argument. *)
      <<"S","t","r","i","p"," ","t","r","a","i","l","i","n","g"," ","b","y","t","e","s"," ","c","o","n",
        "t","a","i","n","e","d"," ","i","n"," ","t","h","e"," ","a","r","g","u","m","e","n","t",".",
        "\n","\n","I","f"," ","t","h","e"," ","a","r","g","u","m","e","n","t"," ","i","s"," ","o",
        "m","i","t","t","e","d"," ","o","r"," ","N","o","n","e",","," ","s","t","r","i","p"," ","t",
        "r","a","i","l","i","n","g"," ","A","S","C","I","I"," ","w","h","i","t","e","s","p","a","c",
        "e",".">>,
      (* 237: Return a list of the sections in the bytes, using sep as the delimiter *)
      <<"R","e","t","u","r","n"," ","a"," ","l","i","s","t"," ","o","f"," ","t","h","e"," ","s","e","c",
        "t","i","o","n","s"," ","i","n"," ","t","h","e"," ","b","y","t","e","s",","," ","u","s","i",
        "n","g"," ","s","e","p"," ","a","s"," ","t","h","e"," ","d","e","l","i","m","i","t","e","r",
        ".","\n","\n","s","e","p","\n"," "," ","T","h","e"," ","d","e","l","i","m","i","t","e","r",
        " ","a","c","c","o","r","d","i","n","g"," ","w","h","i","c","h"," ","t","o"," ","s","p","l",
        "i","t"," ","t","h","e"," ","b","y","t","e","s",".","\n"," "," ","N","o","n","e"," ","(",
        "t","h","e"," ","d","e","f","a","u","l","t"," ","v","a","l","u","e",")"," ","m","e","a","n",
        "s"," ","s","p","l","i","t"," ","o","n"," ","A","S","C","I","I"," ","w","h","i","t","e","s",
        "p","a","c","e"," ","c","h","a","r","a","c","t","e","r","s","\n"," "," ","(","s","p","a",
        "c","e",","," ","t","a","b",","," ","r","e","t","u","r","n",","," ","n","e","w","l","i","n",
        "e",","," ","f","o","r","m","f","e","e","d",","," ","v","e","r","t","i","c","a","l"," ","t",
        "a","b",")",".","\n","m","a","x","s","p","l","i","t","\n"," "," ","M","a","x","i","m","u",
        "m"," ","n","u","m","b","e","r"," ","o","f"," ","s","p","l","i","t","s"," ","t","o"," ","d",
        "o",".","\n"," "," ","-","1"," ","(","t","h","e"," ","d","e","f","a","u","l","t"," ","v",
        "a","l","u","e",")"," ","m","e","a","n","s"," ","n","o"," ","l","i","m","i","t",".">>,
      (* 238: Return a list of the lines in the bytes, breaking at line boundaries. *)
      <<"R","e","t","u","r","n"," ","a"," ","l","i","s","t"," ","o","f"," ","t","h","e"," ","l","i","n",
        "e","s"," ","i","n"," ","t","h","e"," ","b","y","t","e","s",","," ","b","r","e","a","k","i",
        "n","g"," ","a","t"," ","l","i","n","e"," ","b","o","u","n","d","a","r","i","e","s",".",
        "\n","\n","L","i","n","e"," ","b","r","e","a","k","s"," ","a","r","e"," ","n","o","t"," ",
        "i","n","c","l","u","d","e","d"," ","i","n"," ","t","h","e"," ","r","e","s","u","l","t","i",
        "n","g"," ","l","i","s","t"," ","u","n","l","e","s","s"," ","k","e","e","p","e","n","d","s",
        " ","i","s"," ","g","i","v","e","n"," ","a","n","d","\n","t","r","u","e",".">>,
      (* 239: B.startswith(prefix[, start[, end]]) -> bool *)
      <<"B",".","s","t","a","r","t","s","w","i","t","h","(","p","r","e","f","i","x","[",","," ","s","t",
        "a","r","t","[",","," ","e","n","d","]","]",")"," ","-",">"," ","b","o","o","l","\n","\n",
        "R","e","t","u","r","n"," ","T","r","u","e"," ","i","f"," ","B"," ","s","t","a","r","t","s",
        " ","w","i","t","h"," ","t","h","e"," ","s","p","e","c","i","f","i","e","d"," ","p","r","e",
        "f","i","x",","," ","F","a","l","s","e"," ","o","t","h","e","r","w","i","s","e",".","\n",
        "W","i","t","h"," ","o","p","t","i","o","n","a","l"," ","s","t","a","r","t",","," ","t","e",
        "s","t"," ","B"," ","b","e","g","i","n","n","i","n","g"," ","a","t"," ","t","h","a","t"," ",
        "p","o","s","i","t","i","o","n",".","\n","W","i","t","h"," ","o","p","t","i","o","n","a",
        "l"," ","e","n","d",","," ","s","t","o","p"," ","c","o","m","p","a","r","i","n","g"," ","B",
        " ","a","t"," ","t","h","a","t"," ","p","o","s","i","t","i","o","n",".","\n","p","r","e",
        "f","i","x"," ","c","a","n"," ","a","l","s","o"," ","b","e"," ","a"," ","t","u","p","l","e",
        " ","o","f"," ","b","y","t","e","s"," ","t","o"," ","t","r","y",".">>,
      (* 240: Strip leading and trailing bytes contained in the argument. *)
      <<"S","t","r","i","p"," ","l","e","a","d","i","n","g"," ","a","n","d"," ","t","r","a","i","l","i",
        "n","g"," ","b","y","t","e","s"," ","c","o","n","t","a","i","n","e","d"," ","i","n"," ","t",
        "h","e"," ","a","r","g","u","m","e","n","t",".","\n","\n","I","f"," ","t","h","e"," ","a",
        "r","g","u","m","e","n","t"," ","i","s"," ","o","m","i","t","t","e","d"," ","o","r"," ","N",
        "o","n","e",","," ","s","t","r","i","p"," ","l","e","a","d","i","n","g"," ","a","n","d"," ",
        "t","r","a","i","l","i","n","g"," ","A","S","C","I","I"," ","w","h","i","t","e","s","p","a",
        "c","e",".">>,
      (* 241: B.swapcase() -> copy of B *)
      <<"B",".","s","w","a","p","c","a","s","e","(",")"," ","-",">"," ","c","o","p","y"," ","o","f"," ",
        "B","\n","\n","R","e","t","u","r","n"," ","a"," ","c","o","p","y"," ","o","f"," ","B"," ",
        "w","i","t","h"," ","u","p","p","e","r","c","a","s","e"," ","A","S","C","I","I"," ","c","h",
        "a","r","a","c","t","e","r","s"," ","c","o","n","v","e","r","t","e","d","\n","t","o"," ",
        "l","o","w","e","r","c","a","s","e"," ","A","S","C","I","I"," ","a","n","d"," ","v","i","c",
        "e"," ","v","e","r","s","a",".">>,
      (* 242: B.title() -> copy of B *)
      <<"B",".","t","i","t","l","e","(",")"," ","-",">"," ","c","o","p","y"," ","o","f"," ","B","\n","\n",
        "R","e","t","u","r","n"," ","a"," ","t","i","t","l","e","c","a","s","e","d"," ","v","e","r",
        "s","i","o","n"," ","o","f"," ","B",","," ","i",".","e","."," ","A","S","C","I","I"," ","w",
        "o","r","d","s"," ","s","t","a","r","t"," ","w","i","t","h"," ","u","p","p","e","r","c","a",
        "s","e","\n","c","h","a","r","a","c","t","e","r","s",","," ","a","l","l"," ","r","e","m",
        "a","i","n","i","n","g"," ","c","a","s","e","d"," ","c","h","a","r","a","c","t","e","r","s",
        " ","h","a","v","e"," ","l","o","w","e","r","c","a","s","e",".">>,
      (* 243: Return a copy with each character mapped by the given translation tabl *)
      <<"R","e","t","u","r","n"," ","a"," ","c","o","p","y"," ","w","i","t","h"," ","e","a","c","h"," ",
        "c","h","a","r","a","c","t","e","r"," ","m","a","p","p","e","d"," ","b","y"," ","t","h","e",
        " ","g","i","v","e","n"," ","t","r","a","n","s","l","a","t","i","o","n"," ","t","a","b","l",
        "e",".","\n","\n"," "," ","t","a","b","l","e","\n"," "," "," "," ","T","r","a","n","s","l",
        "a","t","i","o","n"," ","t","a","b","l","e",","," ","w","h","i","c","h"," ","m","u","s","t",
        " ","b","e"," ","a"," ","b","y","t","e","s"," ","o","b","j","e","c","t"," ","o","f"," ","l",
        "e","n","g","t","h"," ","2","5","6",".","\n","\n","A","l","l"," ","c","h","a","r","a","c",
        "t","e","r","s"," ","o","c","c","u","r","r","i","n","g"," ","i","n"," ","t","h","e"," ","o",
        "p","t","i","o","n","a","l"," ","a","r","g","u","m","e","n","t"," ","d","e","l","e","t","e",
        " ","a","r","e"," ","r","e","m","o","v","e","d",".","\n","T","h","e"," ","r","e","m","a",
        "i","n","i","n","g"," ","c","h","a","r","a","c","t","e","r","s"," ","a","r","e"," ","m","a",
        "p","p","e","d"," ","t","h","r","o","u","g","h"," ","t","h","e"," ","g","i","v","e","n"," ",
        "t","r","a","n","s","l","a","t","i","o","n"," ","t","a","b","l","e",".">>,
      (* 244: B.upper() -> copy of B *)
      <<"B",".","u","p","p","e","r","(",")"," ","-",">"," ","c","o","p","y"," ","o","f"," ","B","\n","\n",
        "R","e","t","u","r","n"," ","a"," ","c","o","p","y"," ","o","f"," ","B"," ","w","i","t","h",
        " ","a","l","l"," ","A","S","C","I","I"," ","c","h","a","r","a","c","t","e","r","s"," ","c",
        "o","n","v","e","r","t","e","d"," ","t","o"," ","u","p","p","e","r","c","a","s","e",".">>,
      (* 245: Pad a numeric string with zeros on the left, to fill a field of the gi *)
      <<"P","a","d"," ","a"," ","n","u","m","e","r","i","c"," ","s","t","r","i","n","g"," ","w","i","t",
        "h"," ","z","e","r","o","s"," ","o","n"," ","t","h","e"," ","l","e","f","t",","," ","t","o",
        " ","f","i","l","l"," ","a"," ","f","i","e","l","d"," ","o","f"," ","t","h","e"," ","g","i",
        "v","e","n"," ","w","i","d","t","h",".","\n","\n","T","h","e"," ","o","r","i","g","i","n",
        "a","l"," ","s","t","r","i","n","g"," ","i","s"," ","n","e","v","e","r"," ","t","r","u","n",
        "c","a","t","e","d",".">>,
      (* 246: B.__alloc__() -> int *)
      <<"B",".","_","_","a","l","l","o","c","_","_","(",")"," ","-",">"," ","i","n","t","\n","\n","R","e",
        "t","u","r","n"," ","t","h","e"," ","n","u","m","b","e","r"," ","o","f"," ","b","y","t","e",
        "s"," ","a","c","t","u","a","l","l","y"," ","a","l","l","o","c","a","t","e","d",".">>,
      (* 247: Returns the size of the bytearray object in memory, in bytes. *)
      <<"R","e","t","u","r","n","s"," ","t","h","e"," ","s","i","z","e"," ","o","f"," ","t","h","e"," ",
        "b","y","t","e","a","r","r","a","y"," ","o","b","j","e","c","t"," ","i","n"," ","m","e","m",
        "o","r","y",","," ","i","n"," ","b","y","t","e","s",".">>,
      (* 248: Append a single item to the end of the bytearray. *)
      <<"A","p","p","e","n","d"," ","a"," ","s","i","n","g","l","e"," ","i","t","e","m"," ","t","o"," ",
        "t","h","e"," ","e","n","d"," ","o","f"," ","t","h","e"," ","b","y","t","e","a","r","r","a",
        "y",".","\n","\n","i","t","e","m","\n"," "," ","T","h","e"," ","i","t","e","m"," ","t","o",
        " ","b","e"," ","a","p","p","e","n","d","e","d",".">>,
      (* 249: Remove all items from the bytearray. *)
      <<"R","e","m","o","v","e"," ","a","l","l"," ","i","t","e","m","s"," ","f","r","o","m"," ","t","h",
        "e"," ","b","y","t","e","a","r","r","a","y",".">>,
      (* 250: Return a copy of B. *)
      <<"R","e","t","u","r","n"," ","a"," ","c","o","p","y"," ","o","f"," ","B",".">>,
      (* 251: Decode the bytearray using the codec registered for encoding. *)
      <<"D","e","c","o","d","e"," ","t","h","e"," ","b","y","t","e","a","r","r","a","y"," ","u","s","i",
        "n","g"," ","t","h","e"," ","c","o","d","e","c"," ","r","e","g","i","s","t","e","r","e","d",
        " ","f","o","r"," ","e","n","c","o","d","i","n","g",".","\n","\n","e","n","c","o","d","i",
        "n","g","\n"," "," ","T","h","e"," ","e","n","c","o","d","i","n","g"," ","w","i","t","h",
        " ","w","h","i","c","h"," ","t","o"," ","d","e","c","o","d","e"," ","t","h","e"," ","b","y",
        "t","e","a","r","r","a","y",".","\n","e","r","r","o","r","s","\n"," "," ","T","h","e"," ",
        "e","r","r","o","r"," ","h","a","n","d","l","i","n","g"," ","s","c","h","e","m","e"," ","t",
        "o"," ","u","s","e"," ","f","o","r"," ","t","h","e"," ","h","a","n","d","l","i","n","g"," ",
        "o","f"," ","d","e","c","o","d","i","n","g"," ","e","r","r","o","r","s",".","\n"," "," ",
        "T","h","e"," ","d","e","f","a","u","l","t"," ","i","s"," ","'","s","t","r","i","c","t","'",
        " ","m","e","a","n","i","n","g"," ","t","h","a","t"," ","d","e","c","o","d","i","n","g"," ",
        "e","r","r","o","r","s"," ","r","a","i","s","e"," ","a","\n"," "," ","U","n","i","c","o",
        "d","e","D","e","c","o","d","e","E","r","r","o","r","."," ","O","t","h","e","r"," ","p","o",
        "s","s","i","b","l","e"," ","v","a","l","u","e","s"," ","a","r","e"," ","'","i","g","n","o",
        "r","e","'"," ","a","n","d"," ","'","r","e","p","l","a","c","e","'","\n"," "," ","a","s",
        " ","w","e","l","l"," ","a","s"," ","a","n","y"," ","o","t","h","e","r"," ","n","a","m","e",
        " ","r","e","g","i","s","t","e","r","e","d"," ","w","i","t","h"," ","c","o","d","e","c","s",
        ".","r","e","g","i","s","t","e","r","_","e","r","r","o","r"," ","t","h","a","t","\n"," ",
        " ","c","a","n"," ","h","a","n","d","l","e"," ","U","n","i","c","o","d","e","D","e","c","o",
        "d","e","E","r","r","o","r","s",".">>,
      (* 252: Append all the items from the iterator or sequence to the end of the b *)
      <<"A","p","p","e","n","d"," ","a","l","l"," ","t","h","e"," ","i","t","e","m","s"," ","f","r","o",
        "m"," ","t","h","e"," ","i","t","e","r","a","t","o","r"," ","o","r"," ","s","e","q","u","e",
        "n","c","e"," ","t","o"," ","t","h","e"," ","e","n","d"," ","o","f"," ","t","h","e"," ","b",
        "y","t","e","a","r","r","a","y",".","\n","\n","i","t","e","r","a","b","l","e","_","o","f",
        "_","i","n","t","s","\n"," "," ","T","h","e"," ","i","t","e","r","a","b","l","e"," ","o",
        "f"," ","i","t","e","m","s"," ","t","o"," ","a","p","p","e","n","d",".">>,
      (* 253: Create a bytearray object from a string of hexadecimal numbers. *)
      <<"C","r","e","a","t","e"," ","a"," ","b","y","t","e","a","r","r","a","y"," ","o","b","j","e","c",
        "t"," ","f","r","o","m"," ","a"," ","s","t","r","i","n","g"," ","o","f"," ","h","e","x","a",
        "d","e","c","i","m","a","l"," ","n","u","m","b","e","r","s",".","\n","\n","S","p","a","c",
        "e","s"," ","b","e","t","w","e","e","n"," ","t","w","o"," ","n","u","m","b","e","r","s"," ",
        "a","r","e"," ","a","c","c","e","p","t","e","d",".","\n","E","x","a","m","p","l","e",":",
        " ","b","y","t","e","a","r","r","a","y",".","f","r","o","m","h","e","x","(","'","B","9"," ",
        "0","1","E","F","'",")"," ","-",">"," ","b","y","t","e","a","r","r","a","y","(","b","'",
        "\\","\\","x","b","9","\\","\\","x","0","1","\\","\\","x","e","f","'",")">>,
      (* 254: Create a string of hexadecimal numbers from a bytearray object. *)
      <<"C","r","e","a","t","e"," ","a"," ","s","t","r","i","n","g"," ","o","f"," ","h","e","x","a","d",
        "e","c","i","m","a","l"," ","n","u","m","b","e","r","s"," ","f","r","o","m"," ","a"," ","b",
        "y","t","e","a","r","r","a","y"," ","o","b","j","e","c","t",".","\n","\n"," "," ","s","e",
        "p","\n"," "," "," "," ","A","n"," ","o","p","t","i","o","n","a","l"," ","s","i","n","g",
        "l","e"," ","c","h","a","r","a","c","t","e","r"," ","o","r"," ","b","y","t","e"," ","t","o",
        " ","s","e","p","a","r","a","t","e"," ","h","e","x"," ","b","y","t","e","s",".","\n"," ",
        " ","b","y","t","e","s","_","p","e","r","_","s","e","p","\n"," "," "," "," ","H","o","w",
        " ","m","a","n","y"," ","b","y","t","e","s"," ","b","e","t","w","e","e","n"," ","s","e","p",
        "a","r","a","t","o","r","s","."," "," ","P","o","s","i","t","i","v","e"," ","v","a","l","u",
        "e","s"," ","c","o","u","n","t"," ","f","r","o","m"," ","t","h","e","\n"," "," "," "," ",
        "r","i","g","h","t",","," ","n","e","g","a","t","i","v","e"," ","v","a","l","u","e","s"," ",
        "c","o","u","n","t"," ","f","r","o","m"," ","t","h","e"," ","l","e","f","t",".","\n","\n",
        "E","x","a","m","p","l","e",":","\n",">",">",">"," ","v","a","l","u","e"," ","="," ","b",
        "y","t","e","a","r","r","a","y","(","[","0","x","b","9",","," ","0","x","0","1",","," ","0",
        "x","e","f","]",")","\n",">",">",">"," ","v","a","l","u","e",".","h","e","x","(",")","\n",
        "'","b","9","0","1","e","f","'","\n",">",">",">"," ","v","a","l","u","e",".","h","e","x",
        "(","'",":","'",")","\n","'","b","9",":","0","1",":","e","f","'","\n",">",">",">"," ","v",
        "a","l","u","e",".","h","e","x","(","'",":","'",","," ","2",")","\n","'","b","9",":","0",
        "1","e","f","'","\n",">",">",">"," ","v","a","l","u","e",".","h","e","x","(","'",":","'",
        ","," ","-","2",")","\n","'","b","9","0","1",":","e","f","'">>,
      (* 255: Insert a single item into the bytearray before the given index. *)
      <<"I","n","s","e","r","t"," ","a"," ","s","i","n","g","l","e"," ","i","t","e","m"," ","i","n","t",
        "o"," ","t","h","e"," ","b","y","t","e","a","r","r","a","y"," ","b","e","f","o","r","e"," ",
        "t","h","e"," ","g","i","v","e","n"," ","i","n","d","e","x",".","\n","\n","i","n","d","e",
        "x","\n"," "," ","T","h","e"," ","i","n","d","e","x"," ","w","h","e","r","e"," ","t","h",
        "e"," ","v","a","l","u","e"," ","i","s"," ","t","o"," ","b","e"," ","i","n","s","e","r","t",
        "e","d",".","\n","i","t","e","m","\n"," "," ","T","h","e"," ","i","t","e","m"," ","t","o",
        " ","b","e"," ","i","n","s","e","r","t","e","d",".">>,
      (* 256: Concatenate any number of bytes/bytearray objects. *)
      <<"C","o","n","c","a","t","e","n","a","t","e"," ","a","n","y"," ","n","u","m","b","e","r"," ","o",
        "f"," ","b","y","t","e","s","/","b","y","t","e","a","r","r","a","y"," ","o","b","j","e","c",
        "t","s",".","\n","\n","T","h","e"," ","b","y","t","e","a","r","r","a","y"," ","w","h","o",
        "s","e"," ","m","e","t","h","o","d"," ","i","s"," ","c","a","l","l","e","d"," ","i","s"," ",
        "i","n","s","e","r","t","e","d"," ","i","n"," ","b","e","t","w","e","e","n"," ","e","a","c",
        "h"," ","p","a","i","r",".","\n","\n","T","h","e"," ","r","e","s","u","l","t"," ","i","s",
        " ","r","e","t","u","r","n","e","d"," ","a","s"," ","a"," ","n","e","w"," ","b","y","t","e",
        "a","r","r","a","y"," ","o","b","j","e","c","t",".">>,
      (* 257: Strip leading bytes contained in the argument. *)
      <<"S","t","r","i","p"," ","l","e","a","d","i","n","g"," ","b","y","t","e","s"," ","c","o","n","t",
        "a","i","n","e","d"," ","i","n"," ","t","h","e"," ","a","r","g","u","m","e","n","t",".",
        "\n","\n","I","f"," ","t","h","e"," ","a","r","g","u","m","e","n","t"," ","i","s"," ","o",
        "m","i","t","t","e","d"," ","o","r"," ","N","o","n","e",","," ","s","t","r","i","p"," ","l",
        "e","a","d","i","n","g"," ","A","S","C","I","I"," ","w","h","i","t","e","s","p","a","c","e",
        ".">>,
      (* 258: Partition the bytearray into three parts using the given separator. *)
      <<"P","a","r","t","i","t","i","o","n"," ","t","h","e"," ","b","y","t","e","a","r","r","a","y"," ",
        "i","n","t","o"," ","t","h","r","e","e"," ","p","a","r","t","s"," ","u","s","i","n","g"," ",
        "t","h","e"," ","g","i","v","e","n"," ","s","e","p","a","r","a","t","o","r",".","\n","\n",
        "T","h","i","s"," ","w","i","l","l"," ","s","e","a","r","c","h"," ","f","o","r"," ","t","h",
        "e"," ","s","e","p","a","r","a","t","o","r"," ","s","e","p"," ","i","n"," ","t","h","e"," ",
        "b","y","t","e","a","r","r","a","y","."," ","I","f"," ","t","h","e"," ","s","e","p","a","r",
        "a","t","o","r"," ","i","s","\n","f","o","u","n","d",","," ","r","e","t","u","r","n","s",
        " ","a"," ","3","-","t","u","p","l","e"," ","c","o","n","t","a","i","n","i","n","g"," ","t",
        "h","e"," ","p","a","r","t"," ","b","e","f","o","r","e"," ","t","h","e"," ","s","e","p","a",
        "r","a","t","o","r",","," ","t","h","e","\n","s","e","p","a","r","a","t","o","r"," ","i",
        "t","s","e","l","f",","," ","a","n","d"," ","t","h","e"," ","p","a","r","t"," ","a","f","t",
        "e","r"," ","i","t"," ","a","s"," ","n","e","w"," ","b","y","t","e","a","r","r","a","y"," ",
        "o","b","j","e","c","t","s",".","\n","\n","I","f"," ","t","h","e"," ","s","e","p","a","r",
        "a","t","o","r"," ","i","s"," ","n","o","t"," ","f","o","u","n","d",","," ","r","e","t","u",
        "r","n","s"," ","a"," ","3","-","t","u","p","l","e"," ","c","o","n","t","a","i","n","i","n",
        "g"," ","t","h","e"," ","c","o","p","y"," ","o","f"," ","t","h","e","\n","o","r","i","g",
        "i","n","a","l"," ","b","y","t","e","a","r","r","a","y"," ","o","b","j","e","c","t"," ","a",
        "n","d"," ","t","w","o"," ","e","m","p","t","y"," ","b","y","t","e","a","r","r","a","y"," ",
        "o","b","j","e","c","t","s",".">>,
      (* 259: Remove and return a single item from B. *)
      <<"R","e","m","o","v","e"," ","a","n","d"," ","r","e","t","u","r","n"," ","a"," ","s","i","n","g",
        "l","e"," ","i","t","e","m"," ","f","r","o","m"," ","B",".","\n","\n"," "," ","i","n","d",
        "e","x","\n"," "," "," "," ","T","h","e"," ","i","n","d","e","x"," ","f","r","o","m"," ",
        "w","h","e","r","e"," ","t","o"," ","r","e","m","o","v","e"," ","t","h","e"," ","i","t","e",
        "m",".","\n"," "," "," "," ","-","1"," ","(","t","h","e"," ","d","e","f","a","u","l","t",
        " ","v","a","l","u","e",")"," ","m","e","a","n","s"," ","r","e","m","o","v","e"," ","t","h",
        "e"," ","l","a","s","t"," ","i","t","e","m",".","\n","\n","I","f"," ","n","o"," ","i","n",
        "d","e","x"," ","a","r","g","u","m","e","n","t"," ","i","s"," ","g","i","v","e","n",","," ",
        "w","i","l","l"," ","p","o","p"," ","t","h","e"," ","l","a","s","t"," ","i","t","e","m","."
        >>,
      (* 260: Remove the first occurrence of a value in the bytearray. *)
      <<"R","e","m","o","v","e"," ","t","h","e"," ","f","i","r","s","t"," ","o","c","c","u","r","r","e",
        "n","c","e"," ","o","f"," ","a"," ","v","a","l","u","e"," ","i","n"," ","t","h","e"," ","b",
        "y","t","e","a","r","r","a","y",".","\n","\n","v","a","l","u","e","\n"," "," ","T","h","e",
        " ","v","a","l","u","e"," ","t","o"," ","r","e","m","o","v","e",".">>,
      (* 261: Return a bytearray with the given prefix string removed if present. *)
      <<"R","e","t","u","r","n"," ","a"," ","b","y","t","e","a","r","r","a","y"," ","w","i","t","h"," ",
        "t","h","e"," ","g","i","v","e","n"," ","p","r","e","f","i","x"," ","s","t","r","i","n","g",
        " ","r","e","m","o","v","e","d"," ","i","f"," ","p","r","e","s","e","n","t",".","\n","\n",
        "I","f"," ","t","h","e"," ","b","y","t","e","a","r","r","a","y"," ","s","t","a","r","t","s",
        " ","w","i","t","h"," ","t","h","e"," ","p","r","e","f","i","x"," ","s","t","r","i","n","g",
        ","," ","r","e","t","u","r","n","\n","b","y","t","e","a","r","r","a","y","[","l","e","n",
        "(","p","r","e","f","i","x",")",":","]","."," "," ","O","t","h","e","r","w","i","s","e",",",
        " ","r","e","t","u","r","n"," ","a"," ","c","o","p","y"," ","o","f"," ","t","h","e"," ","o",
        "r","i","g","i","n","a","l","\n","b","y","t","e","a","r","r","a","y",".">>,
      (* 262: Return a bytearray with the given suffix string removed if present. *)
      <<"R","e","t","u","r","n"," ","a"," ","b","y","t","e","a","r","r","a","y"," ","w","i","t","h"," ",
        "t","h","e"," ","g","i","v","e","n"," ","s","u","f","f","i","x"," ","s","t","r","i","n","g",
        " ","r","e","m","o","v","e","d"," ","i","f"," ","p","r","e","s","e","n","t",".","\n","\n",
        "I","f"," ","t","h","e"," ","b","y","t","e","a","r","r","a","y"," ","e","n","d","s"," ","w",
        "i","t","h"," ","t","h","e"," ","s","u","f","f","i","x"," ","s","t","r","i","n","g"," ","a",
        "n","d"," ","t","h","a","t"," ","s","u","f","f","i","x"," ","i","s"," ","n","o","t","\n",
        "e","m","p","t","y",","," ","r","e","t","u","r","n"," ","b","y","t","e","a","r","r","a","y",
        "[",":","-","l","e","n","(","s","u","f","f","i","x",")","]","."," "," ","O","t","h","e","r",
        "w","i","s","e",","," ","r","e","t","u","r","n"," ","a"," ","c","o","p","y"," ","o","f",
        "\n","t","h","e"," ","o","r","i","g","i","n","a","l"," ","b","y","t","e","a","r","r","a",
        "y",".">>,
      (* 263: Reverse the order of the values in B in place. *)
      <<"R","e","v","e","r","s","e"," ","t","h","e"," ","o","r","d","e","r"," ","o","f"," ","t","h","e",
        " ","v","a","l","u","e","s"," ","i","n"," ","B"," ","i","n"," ","p","l","a","c","e",".">>,
      (* 264: Partition the bytearray into three parts using the given separator. *)
      <<"P","a","r","t","i","t","i","o","n"," ","t","h","e"," ","b","y","t","e","a","r","r","a","y"," ",
        "i","n","t","o"," ","t","h","r","e","e"," ","p","a","r","t","s"," ","u","s","i","n","g"," ",
        "t","h","e"," ","g","i","v","e","n"," ","s","e","p","a","r","a","t","o","r",".","\n","\n",
        "T","h","i","s"," ","w","i","l","l"," ","s","e","a","r","c","h"," ","f","o","r"," ","t","h",
        "e"," ","s","e","p","a","r","a","t","o","r"," ","s","e","p"," ","i","n"," ","t","h","e"," ",
        "b","y","t","e","a","r","r","a","y",","," ","s","t","a","r","t","i","n","g"," ","a","t"," ",
        "t","h","e"," ","e","n","d",".","\n","I","f"," ","t","h","e"," ","s","e","p","a","r","a",
        "t","o","r"," ","i","s"," ","f","o","u","n","d",","," ","r","e","t","u","r","n","s"," ","a",
        " ","3","-","t","u","p","l","e"," ","c","o","n","t","a","i","n","i","n","g"," ","t","h","e",
        " ","p","a","r","t"," ","b","e","f","o","r","e"," ","t","h","e","\n","s","e","p","a","r",
        "a","t","o","r",","," ","t","h","e"," ","s","e","p","a","r","a","t","o","r"," ","i","t","s",
        "e","l","f",","," ","a","n","d"," ","t","h","e"," ","p","a","r","t"," ","a","f","t","e","r",
        " ","i","t"," ","a","s"," ","n","e","w"," ","b","y","t","e","a","r","r","a","y","\n","o",
        "b","j","e","c","t","s",".","\n","\n","I","f"," ","t","h","e"," ","s","e","p","a","r","a",
        "t","o","r"," ","i","s"," ","n","o","t"," ","f","o","u","n","d",","," ","r","e","t","u","r",
        "n","s"," ","a"," ","3","-","t","u","p","l","e"," ","c","o","n","t","a","i","n","i","n","g",
        " ","t","w","o"," ","e","m","p","t","y"," ","b","y","t","e","a","r","r","a","y","\n","o",
        "b","j","e","c","t","s"," ","a","n","d"," ","t","h","e"," ","c","o","p","y"," ","o","f"," ",
        "t","h","e"," ","o","r","i","g","i","n","a","l"," ","b","y","t","e","a","r","r","a","y"," ",
        "o","b","j","e","c","t",".">>,
      (* 265: Return a list of the sections in the bytearray, using sep as the delim *)
      <<"R","e","t","u","r","n"," ","a"," ","l","i","s","t"," ","o","f"," ","t","h","e"," ","s","e","c",
        "t","i","o","n","s"," ","i","n"," ","t","h","e"," ","b","y","t","e","a","r","r","a","y",",",
        " ","u","s","i","n","g"," ","s","e","p"," ","a","s"," ","t","h","e"," ","d","e","l","i","m",
        "i","t","e","r",".","\n","\n"," "," ","s","e","p","\n"," "," "," "," ","T","h","e"," ","d",
        "e","l","i","m","i","t","e","r"," ","a","c","c","o","r","d","i","n","g"," ","w","h","i","c",
        "h"," ","t","o"," ","s","p","l","i","t"," ","t","h","e"," ","b","y","t","e","a","r","r","a",
        "y",".","\n"," "," "," "," ","N","o","n","e"," ","(","t","h","e"," ","d","e","f","a","u",
        "l","t"," ","v","a","l","u","e",")"," ","m","e","a","n","s"," ","s","p","l","i","t"," ","o",
        "n"," ","A","S","C","I","I"," ","w","h","i","t","e","s","p","a","c","e"," ","c","h","a","r",
        "a","c","t","e","r","s","\n"," "," "," "," ","(","s","p","a","c","e",","," ","t","a","b",
        ","," ","r","e","t","u","r","n",","," ","n","e","w","l","i","n","e",","," ","f","o","r","m",
        "f","e","e","d",","," ","v","e","r","t","i","c","a","l"," ","t","a","b",")",".","\n"," ",
        " ","m","a","x","s","p","l","i","t","\n"," "," "," "," ","M","a","x","i","m","u","m"," ",
        "n","u","m","b","e","r"," ","o","f"," ","s","p","l","i","t","s"," ","t","o"," ","d","o",".",
        "\n"," "," "," "," ","-","1"," ","(","t","h","e"," ","d","e","f","a","u","l","t"," ","v",
        "a","l","u","e",")"," ","m","e","a","n","s"," ","n","o"," ","l","i","m","i","t",".","\n",
        "\n","S","p","l","i","t","t","i","n","g"," ","i","s"," ","d","o","n","e"," ","s","t","a",
        "r","t","i","n","g"," ","a","t"," ","t","h","e"," ","e","n","d"," ","o","f"," ","t","h","e",
        " ","b","y","t","e","a","r","r","a","y"," ","a","n","d"," ","w","o","r","k","i","n","g"," ",
        "t","o"," ","t","h","e"," ","f","r","o","n","t",".">>,
      (* 266: Return a list of the sections in the bytearray, using sep as the delim *)
      <<"R","e","t","u","r","n"," ","a"," ","l","i","s","t"," ","o","f"," ","t","h","e"," ","s","e","c",
        "t","i","o","n","s"," ","i","n"," ","t","h","e"," ","b","y","t","e","a","r","r","a","y",",",
        " ","u","s","i","n","g"," ","s","e","p"," ","a","s"," ","t","h","e"," ","d","e","l","i","m",
        "i","t","e","r",".","\n","\n","s","e","p","\n"," "," ","T","h","e"," ","d","e","l","i","m",
        "i","t","e","r"," ","a","c","c","o","r","d","i","n","g"," ","w","h","i","c","h"," ","t","o",
        " ","s","p","l","i","t"," ","t","h","e"," ","b","y","t","e","a","r","r","a","y",".","\n",
        " "," ","N","o","n","e"," ","(","t","h","e"," ","d","e","f","a","u","l","t"," ","v","a","l",
        "u","e",")"," ","m","e","a","n","s"," ","s","p","l","i","t"," ","o","n"," ","A","S","C","I",
        "I"," ","w","h","i","t","e","s","p","a","c","e"," ","c","h","a","r","a","c","t","e","r","s",
        "\n"," "," ","(","s","p","a","c","e",","," ","t","a","b",","," ","r","e","t","u","r","n",
        ","," ","n","e","w","l","i","n","e",","," ","f","o","r","m","f","e","e","d",","," ","v","e",
        "r","t","i","c","a","l"," ","t","a","b",")",".","\n","m","a","x","s","p","l","i","t","\n",
        " "," ","M","a","x","i","m","u","m"," ","n","u","m","b","e","r"," ","o","f"," ","s","p","l",
        "i","t","s"," ","t","o"," ","d","o",".","\n"," "," ","-","1"," ","(","t","h","e"," ","d",
        "e","f","a","u","l","t"," ","v","a","l","u","e",")"," ","m","e","a","n","s"," ","n","o"," ",
        "l","i","m","i","t",".">>,
      (* 267: Return a list of the lines in the bytearray, breaking at line boundari *)
      <<"R","e","t","u","r","n"," ","a"," ","l","i","s","t"," ","o","f"," ","t","h","e"," ","l","i","n",
        "e","s"," ","i","n"," ","t","h","e"," ","b","y","t","e","a","r","r","a","y",","," ","b","r",
        "e","a","k","i","n","g"," ","a","t"," ","l","i","n","e"," ","b","o","u","n","d","a","r","i",
        "e","s",".","\n","\n","L","i","n","e"," ","b","r","e","a","k","s"," ","a","r","e"," ","n",
        "o","t"," ","i","n","c","l","u","d","e","d"," ","i","n"," ","t","h","e"," ","r","e","s","u",
        "l","t","i","n","g"," ","l","i","s","t"," ","u","n","l","e","s","s"," ","k","e","e","p","e",
        "n","d","s"," ","i","s"," ","g","i","v","e","n"," ","a","n","d","\n","t","r","u","e",".">>,
      (* 268: A bool indicating whether the memory is C contiguous. *)
      <<"A"," ","b","o","o","l"," ","i","n","d","i","c","a","t","i","n","g"," ","w","h","e","t","h","e",
        "r"," ","t","h","e"," ","m","e","m","o","r","y"," ","i","s"," ","C"," ","c","o","n","t","i",
        "g","u","o","u","s",".">>,
      (* 269: Cast a memoryview to a new format or shape. *)
      <<"C","a","s","t"," ","a"," ","m","e","m","o","r","y","v","i","e","w"," ","t","o"," ","a"," ","n",
        "e","w"," ","f","o","r","m","a","t"," ","o","r"," ","s","h","a","p","e",".">>,
      (* 270: A bool indicating whether the memory is contiguous. *)
      <<"A"," ","b","o","o","l"," ","i","n","d","i","c","a","t","i","n","g"," ","w","h","e","t","h","e",
        "r"," ","t","h","e"," ","m","e","m","o","r","y"," ","i","s"," ","c","o","n","t","i","g","u",
        "o","u","s",".">>,
      (* 271: A bool indicating whether the memory is Fortran contiguous. *)
      <<"A"," ","b","o","o","l"," ","i","n","d","i","c","a","t","i","n","g"," ","w","h","e","t","h","e",
        "r"," ","t","h","e"," ","m","e","m","o","r","y"," ","i","s"," ","F","o","r","t","r","a","n",
        " ","c","o","n","t","i","g","u","o","u","s",".">>,
      (* 272: A string containing the format (in struct module style) *)
      <<"A"," ","s","t","r","i","n","g"," ","c","o","n","t","a","i","n","i","n","g"," ","t","h","e"," ",
        "f","o","r","m","a","t"," ","(","i","n"," ","s","t","r","u","c","t"," ","m","o","d","u","l",
        "e"," ","s","t","y","l","e",")","\n","f","o","r"," ","e","a","c","h"," ","e","l","e","m",
        "e","n","t"," ","i","n"," ","t","h","e"," ","v","i","e","w",".">>,
      (* 273: Return the data in the buffer as a str of hexadecimal numbers. *)
      <<"R","e","t","u","r","n"," ","t","h","e"," ","d","a","t","a"," ","i","n"," ","t","h","e"," ","b",
        "u","f","f","e","r"," ","a","s"," ","a"," ","s","t","r"," ","o","f"," ","h","e","x","a","d",
        "e","c","i","m","a","l"," ","n","u","m","b","e","r","s",".","\n","\n"," "," ","s","e","p",
        "\n"," "," "," "," ","A","n"," ","o","p","t","i","o","n","a","l"," ","s","i","n","g","l",
        "e"," ","c","h","a","r","a","c","t","e","r"," ","o","r"," ","b","y","t","e"," ","t","o"," ",
        "s","e","p","a","r","a","t","e"," ","h","e","x"," ","b","y","t","e","s",".","\n"," "," ",
        "b","y","t","e","s","_","p","e","r","_","s","e","p","\n"," "," "," "," ","H","o","w"," ",
        "m","a","n","y"," ","b","y","t","e","s"," ","b","e","t","w","e","e","n"," ","s","e","p","a",
        "r","a","t","o","r","s","."," "," ","P","o","s","i","t","i","v","e"," ","v","a","l","u","e",
        "s"," ","c","o","u","n","t"," ","f","r","o","m"," ","t","h","e","\n"," "," "," "," ","r",
        "i","g","h","t",","," ","n","e","g","a","t","i","v","e"," ","v","a","l","u","e","s"," ","c",
        "o","u","n","t"," ","f","r","o","m"," ","t","h","e"," ","l","e","f","t",".","\n","\n","E",
        "x","a","m","p","l","e",":","\n",">",">",">"," ","v","a","l","u","e"," ","="," ","m","e",
        "m","o","r","y","v","i","e","w","(","b","'","\\","x","b","9","\\","x","0","1","\\","x","e",
        "f","'",")","\n",">",">",">"," ","v","a","l","u","e",".","h","e","x","(",")","\n","'","b",
        "9","0","1","e","f","'","\n",">",">",">"," ","v","a","l","u","e",".","h","e","x","(","'",
        ":","'",")","\n","'","b","9",":","0","1",":","e","f","'","\n",">",">",">"," ","v","a","l",
        "u","e",".","h","e","x","(","'",":","'",","," ","2",")","\n","'","b","9",":","0","1","e",
        "f","'","\n",">",">",">"," ","v","a","l","u","e",".","h","e","x","(","'",":","'",","," ",
        "-","2",")","\n","'","b","9","0","1",":","e","f","'">>,
      (* 274: The size in bytes of each element of the memoryview. *)
      <<"T","h","e"," ","s","i","z","e"," ","i","n"," ","b","y","t","e","s"," ","o","f"," ","e","a","c",
        "h"," ","e","l","e","m","e","n","t"," ","o","f"," ","t","h","e"," ","m","e","m","o","r","y",
        "v","i","e","w",".">>,
      (* 275: The amount of space in bytes that the array would use in *)
      <<"T","h","e"," ","a","m","o","u","n","t"," ","o","f"," ","s","p","a","c","e"," ","i","n"," ","b",
        "y","t","e","s"," ","t","h","a","t"," ","t","h","e"," ","a","r","r","a","y"," ","w","o","u",
        "l","d"," ","u","s","e"," ","i","n","\n","a"," ","c","o","n","t","i","g","u","o","u","s",
        " ","r","e","p","r","e","s","e","n","t","a","t","i","o","n",".">>,
      (* 276: An integer indicating how many dimensions of a multi-dimensional *)
      <<"A","n"," ","i","n","t","e","g","e","r"," ","i","n","d","i","c","a","t","i","n","g"," ","h","o",
        "w"," ","m","a","n","y"," ","d","i","m","e","n","s","i","o","n","s"," ","o","f"," ","a"," ",
        "m","u","l","t","i","-","d","i","m","e","n","s","i","o","n","a","l","\n","a","r","r","a",
        "y"," ","t","h","e"," ","m","e","m","o","r","y"," ","r","e","p","r","e","s","e","n","t","s",
        ".">>,
      (* 277: The underlying object of the memoryview. *)
      <<"T","h","e"," ","u","n","d","e","r","l","y","i","n","g"," ","o","b","j","e","c","t"," ","o","f",
        " ","t","h","e"," ","m","e","m","o","r","y","v","i","e","w",".">>,
      (* 278: A bool indicating whether the memory is read only. *)
      <<"A"," ","b","o","o","l"," ","i","n","d","i","c","a","t","i","n","g"," ","w","h","e","t","h","e",
        "r"," ","t","h","e"," ","m","e","m","o","r","y"," ","i","s"," ","r","e","a","d"," ","o","n",
        "l","y",".">>,
      (* 279: Release the underlying buffer exposed by the memoryview object. *)
      <<"R","e","l","e","a","s","e"," ","t","h","e"," ","u","n","d","e","r","l","y","i","n","g"," ","b",
        "u","f","f","e","r"," ","e","x","p","o","s","e","d"," ","b","y"," ","t","h","e"," ","m","e",
        "m","o","r","y","v","i","e","w"," ","o","b","j","e","c","t",".">>,
      (* 280: A tuple of ndim integers giving the shape of the memory *)
      <<"A"," ","t","u","p","l","e"," ","o","f"," ","n","d","i","m"," ","i","n","t","e","g","e","r","s",
        " ","g","i","v","i","n","g"," ","t","h","e"," ","s","h","a","p","e"," ","o","f"," ","t","h",
        "e"," ","m","e","m","o","r","y","\n","a","s"," ","a","n"," ","N","-","d","i","m","e","n",
        "s","i","o","n","a","l"," ","a","r","r","a","y",".">>,
      (* 281: A tuple of ndim integers giving the size in bytes to access *)
      <<"A"," ","t","u","p","l","e"," ","o","f"," ","n","d","i","m"," ","i","n","t","e","g","e","r","s",
        " ","g","i","v","i","n","g"," ","t","h","e"," ","s","i","z","e"," ","i","n"," ","b","y","t",
        "e","s"," ","t","o"," ","a","c","c","e","s","s","\n","e","a","c","h"," ","e","l","e","m",
        "e","n","t"," ","f","o","r"," ","e","a","c","h"," ","d","i","m","e","n","s","i","o","n"," ",
        "o","f"," ","t","h","e"," ","a","r","r","a","y",".">>,
      (* 282: A tuple of integers used internally for PIL-style arrays. *)
      <<"A"," ","t","u","p","l","e"," ","o","f"," ","i","n","t","e","g","e","r","s"," ","u","s","e","d",
        " ","i","n","t","e","r","n","a","l","l","y"," ","f","o","r"," ","P","I","L","-","s","t","y",
        "l","e"," ","a","r","r","a","y","s",".">>,
      (* 283: Return the data in the buffer as a byte string. *)
      <<"R","e","t","u","r","n"," ","t","h","e"," ","d","a","t","a"," ","i","n"," ","t","h","e"," ","b",
        "u","f","f","e","r"," ","a","s"," ","a"," ","b","y","t","e"," ","s","t","r","i","n","g",".",
        "\n","\n","O","r","d","e","r"," ","c","a","n"," ","b","e"," ","{","'","C","'",","," ","'",
        "F","'",","," ","'","A","'","}","."," ","W","h","e","n"," ","o","r","d","e","r"," ","i","s",
        " ","'","C","'"," ","o","r"," ","'","F","'",","," ","t","h","e"," ","d","a","t","a"," ","o",
        "f"," ","t","h","e","\n","o","r","i","g","i","n","a","l"," ","a","r","r","a","y"," ","i",
        "s"," ","c","o","n","v","e","r","t","e","d"," ","t","o"," ","C"," ","o","r"," ","F","o","r",
        "t","r","a","n"," ","o","r","d","e","r","."," ","F","o","r"," ","c","o","n","t","i","g","u",
        "o","u","s"," ","v","i","e","w","s",",","\n","'","A","'"," ","r","e","t","u","r","n","s",
        " ","a","n"," ","e","x","a","c","t"," ","c","o","p","y"," ","o","f"," ","t","h","e"," ","p",
        "h","y","s","i","c","a","l"," ","m","e","m","o","r","y","."," ","I","n"," ","p","a","r","t",
        "i","c","u","l","a","r",","," ","i","n","-","m","e","m","o","r","y","\n","F","o","r","t",
        "r","a","n"," ","o","r","d","e","r"," ","i","s"," ","p","r","e","s","e","r","v","e","d",".",
        " ","F","o","r"," ","n","o","n","-","c","o","n","t","i","g","u","o","u","s"," ","v","i","e",
        "w","s",","," ","t","h","e"," ","d","a","t","a"," ","i","s"," ","c","o","n","v","e","r","t",
        "e","d","\n","t","o"," ","C"," ","f","i","r","s","t","."," ","o","r","d","e","r","=","N",
        "o","n","e"," ","i","s"," ","t","h","e"," ","s","a","m","e"," ","a","s"," ","o","r","d","e",
        "r","=","'","C","'",".">>,
      (* 284: Return the data in the buffer as a list of elements. *)
      <<"R","e","t","u","r","n"," ","t","h","e"," ","d","a","t","a"," ","i","n"," ","t","h","e"," ","b",
        "u","f","f","e","r"," ","a","s"," ","a"," ","l","i","s","t"," ","o","f"," ","e","l","e","m",
        "e","n","t","s",".">>,
      (* 285: Return a readonly version of the memoryview. *)
      <<"R","e","t","u","r","n"," ","a"," ","r","e","a","d","o","n","l","y"," ","v","e","r","s","i","o",
        "n"," ","o","f"," ","t","h","e"," ","m","e","m","o","r","y","v","i","e","w",".">>,
      (* 286: Return a reverse iterator. *)
      <<"R","e","t","u","r","n"," ","a"," ","r","e","v","e","r","s","e"," ","i","t","e","r","a","t","o",
        "r",".">>,
      (* 287: rangeobject.count(value) -> integer -- return number of occurrences of *)
      <<"r","a","n","g","e","o","b","j","e","c","t",".","c","o","u","n","t","(","v","a","l","u","e",")",
        " ","-",">"," ","i","n","t","e","g","e","r"," ","-","-"," ","r","e","t","u","r","n"," ","n",
        "u","m","b","e","r"," ","o","f"," ","o","c","c","u","r","r","e","n","c","e","s"," ","o","f",
        " ","v","a","l","u","e">>,
      (* 288: rangeobject.index(value) -> integer -- return index of value. *)
      <<"r","a","n","g","e","o","b","j","e","c","t",".","i","n","d","e","x","(","v","a","l","u","e",")",
        " ","-",">"," ","i","n","t","e","g","e","r"," ","-","-"," ","r","e","t","u","r","n"," ","i",
        "n","d","e","x"," ","o","f"," ","v","a","l","u","e",".","\n","R","a","i","s","e"," ","V",
        "a","l","u","e","E","r","r","o","r"," ","i","f"," ","t","h","e"," ","v","a","l","u","e"," ",
        "i","s"," ","n","o","t"," ","p","r","e","s","e","n","t",".">>,
      (* 289: S.indices(len) -> (start, stop, stride) *)
      <<"S",".","i","n","d","i","c","e","s","(","l","e","n",")"," ","-",">"," ","(","s","t","a","r","t",
        ","," ","s","t","o","p",","," ","s","t","r","i","d","e",")","\n","\n","A","s","s","u","m",
        "i","n","g"," ","a"," ","s","e","q","u","e","n","c","e"," ","o","f"," ","l","e","n","g","t",
        "h"," ","l","e","n",","," ","c","a","l","c","u","l","a","t","e"," ","t","h","e"," ","s","t",
        "a","r","t"," ","a","n","d"," ","s","t","o","p","\n","i","n","d","i","c","e","s",","," ",
        "a","n","d"," ","t","h","e"," ","s","t","r","i","d","e"," ","l","e","n","g","t","h"," ","o",
        "f"," ","t","h","e"," ","e","x","t","e","n","d","e","d"," ","s","l","i","c","e"," ","d","e",
        "s","c","r","i","b","e","d"," ","b","y","\n","S","."," ","O","u","t"," ","o","f"," ","b",
        "o","u","n","d","s"," ","i","n","d","i","c","e","s"," ","a","r","e"," ","c","l","i","p","p",
        "e","d"," ","i","n"," ","a"," ","m","a","n","n","e","r"," ","c","o","n","s","i","s","t","e",
        "n","t"," ","w","i","t","h"," ","t","h","e","\n","h","a","n","d","l","i","n","g"," ","o",
        "f"," ","n","o","r","m","a","l"," ","s","l","i","c","e","s",".">>,
      (* 290: Specialized __dir__ implementation for types. *)
      <<"S","p","e","c","i","a","l","i","z","e","d"," ","_","_","d","i","r","_","_"," ","i","m","p","l",
        "e","m","e","n","t","a","t","i","o","n"," ","f","o","r"," ","t","y","p","e","s",".">>,
      (* 291: Return memory consumption of the type object. *)
      <<"R","e","t","u","r","n"," ","m","e","m","o","r","y"," ","c","o","n","s","u","m","p","t","i","o",
        "n"," ","o","f"," ","t","h","e"," ","t","y","p","e"," ","o","b","j","e","c","t",".">>
    >>

(* What the host runtime shows of each type of the registry, under CPython  *)
(* 3.11: dir is dir(t); callable holds the names n of dir(t) with           *)
(* callable(getattr(t, n, None)); attrs maps every name for which           *)
(* hasattr(t, name) holds, the names of dir(t) and those the metaclass      *)
(* supplies, to the outcome of inspect.signature on the attribute (the      *)
(* number of its text in sig_texts, or 0 when it raises) and of             *)
(* inspect.getdoc (the number of its text in doc_texts, or 0 for None).     *)
(* A type that sets __hash__ = None still has the attribute, but it is not  *)
(* callable.                                                                *)
builtin_reflect_table ==
    DictOf(<<
      <<<<"<class 'str'>">>,
          [dir |-> <<<<"_","_","a","d","d","_","_">>, <<"_","_","c","l","a","s","s","_","_">>, <<"_","_","c","o","n",
                   "t","a","i","n","s","_","_">>, <<"_","_","d","e","l","a","t","t","r","_","_">>, 
                   <<"_","_","d","i","r","_","_">>, <<"_","_","d","o","c","_","_">>, <<"_","_","e",
                   "q","_","_">>, <<"_","_","f","o","r","m","a","t","_","_">>, <<"_","_","g","e",
                   "_","_">>, <<"_","_","g","e","t","a","t","t","r","i","b","u","t","e","_","_">>, 
                   <<"_","_","g","e","t","i","t","e","m","_","_">>, <<"_","_","g","e","t","n","e",
                   "w","a","r","g","s","_","_">>, <<"_","_","g","e","t","s","t","a","t","e","_","_"
                   >>, <<"_","_","g","t","_","_">>, <<"_","_","h","a","s","h","_","_">>, <<"_","_",
                   "i","n","i","t","_","_">>, <<"_","_","i","n","i","t","_","s","u","b","c","l","a",
                   "s","s","_","_">>, <<"_","_","i","t","e","r","_","_">>, <<"_","_","l","e","_","_"
                   >>, <<"_","_","l","e","n","_","_">>, <<"_","_","l","t","_","_">>, <<"_","_","m",
                   "o","d","_","_">>, <<"_","_","m","u","l","_","_">>, <<"_","_","n","e","_","_">>, 
                   <<"_","_","n","e","w","_","_">>, <<"_","_","r","e","d","u","c","e","_","_">>, <<
                   "_","_","r","e","d","u","c","e","_","e","x","_","_">>, <<"_","_","r","e","p","r",
                   "_","_">>, <<"_","_","r","m","o","d","_","_">>, <<"_","_","r","m","u","l","_","_"
                   >>, <<"_","_","s","e","t","a","t","t","r","_","_">>, <<"_","_","s","i","z","e",
                   "o","f","_","_">>, <<"_","_","s","t","r","_","_">>, <<"_","_","s","u","b","c",
                   "l","a","s","s","h","o","o","k","_","_">>, <<"c","a","p","i","t","a","l","i","z",
                   "e">>, <<"c","a","s","e","f","o","l","d">>, <<"c","e","n","t","e","r">>, <<"c",
                   "o","u","n","t">>, <<"e","n","c","o","d","e">>, <<"e","n","d","s","w","i","t","h"
                   >>, <<"e","x","p","a","n","d","t","a","b","s">>, <<"f","i","n","d">>, <<"f","o",
                   "r","m","a","t">>, <<"f","o","r","m","a","t","_","m","a","p">>, <<"i","n","d",
                   "e","x">>, <<"i","s","a","l","n","u","m">>, <<"i","s","a","l","p","h","a">>, <<
                   "i","s","a","s","c","i","i">>, <<"i","s","d","e","c","i","m","a","l">>, <<"i",
                   "s","d","i","g","i","t">>, <<"i","s","i","d","e","n","t","i","f","i","e","r">>, 
                   <<"i","s","l","o","w","e","r">>, <<"i","s","n","u","m","e","r","i","c">>, <<"i",
                   "s","p","r","i","n","t","a","b","l","e">>, <<"i","s","s","p","a","c","e">>, <<
                   "i","s","t","i","t","l","e">>, <<"i","s","u","p","p","e","r">>, <<"j","o","i","n"
                   >>, <<"l","j","u","s","t">>, <<"l","o","w","e","r">>, <<"l","s","t","r","i","p">>
                   , <<"m","a","k","e","t","r","a","n","s">>, <<"p","a","r","t","i","t","i","o","n"
                   >>, <<"r","e","m","o","v","e","p","r","e","f","i","x">>, <<"r","e","m","o","v",
                   "e","s","u","f","f","i","x">>, <<"r","e","p","l","a","c","e">>, <<"r","f","i",
                   "n","d">>, <<"r","i","n","d","e","x">>, <<"r","j","u","s","t">>, <<"r","p","a",
                   "r","t","i","t","i","o","n">>, <<"r","s","p","l","i","t">>, <<"r","s","t","r",
                   "i","p">>, <<"s","p","l","i","t">>, <<"s","p","l","i","t","l","i","n","e","s">>, 
                   <<"s","t","a","r","t","s","w","i","t","h">>, <<"s","t","r","i","p">>, <<"s","w",
                   "a","p","c","a","s","e">>, <<"t","i","t","l","e">>, <<"t","r","a","n","s","l",
                   "a","t","e">>, <<"u","p","p","e","r">>, <<"z","f","i","l","l">>>>,
           callable |-> {<<"_","_","a","d","d","_","_">>, <<"_","_","c","l","a","s","s","_","_">>, <<"_","_","c","o","n",
                        "t","a","i","n","s","_","_">>, <<"_","_","d","e","l","a","t","t","r","_","_"
                        >>, <<"_","_","d","i","r","_","_">>, <<"_","_","e","q","_","_">>, <<"_","_",
                        "f","o","r","m","a","t","_","_">>, <<"_","_","g","e","_","_">>, <<"_","_",
                        "g","e","t","a","t","t","r","i","b","u","t","e","_","_">>, <<"_","_","g",
                        "e","t","i","t","e","m","_","_">>, <<"_","_","g","e","t","n","e","w","a",
                        "r","g","s","_","_">>, <<"_","_","g","e","t","s","t","a","t","e","_","_">>, 
                        <<"_","_","g","t","_","_">>, <<"_","_","h","a","s","h","_","_">>, <<"_","_",
                        "i","n","i","t","_","_">>, <<"_","_","i","n","i","t","_","s","u","b","c",
                        "l","a","s","s","_","_">>, <<"_","_","i","t","e","r","_","_">>, <<"_","_",
                        "l","e","_","_">>, <<"_","_","l","e","n","_","_">>, <<"_","_","l","t","_",
                        "_">>, <<"_","_","m","o","d","_","_">>, <<"_","_","m","u","l","_","_">>, <<
                        "_","_","n","e","_","_">>, <<"_","_","n","e","w","_","_">>, <<"_","_","r",
                        "e","d","u","c","e","_","_">>, <<"_","_","r","e","d","u","c","e","_","e",
                        "x","_","_">>, <<"_","_","r","e","p","r","_","_">>, <<"_","_","r","m","o",
                        "d","_","_">>, <<"_","_","r","m","u","l","_","_">>, <<"_","_","s","e","t",
                        "a","t","t","r","_","_">>, <<"_","_","s","i","z","e","o","f","_","_">>, <<
                        "_","_","s","t","r","_","_">>, <<"_","_","s","u","b","c","l","a","s","s",
                        "h","o","o","k","_","_">>, <<"c","a","p","i","t","a","l","i","z","e">>, <<
                        "c","a","s","e","f","o","l","d">>, <<"c","e","n","t","e","r">>, <<"c","o",
                        "u","n","t">>, <<"e","n","c","o","d","e">>, <<"e","n","d","s","w","i","t",
                        "h">>, <<"e","x","p","a","n","d","t","a","b","s">>, <<"f","i","n","d">>, <<
                        "f","o","r","m","a","t">>, <<"f","o","r","m","a","t","_","m","a","p">>, <<
                        "i","n","d","e","x">>, <<"i","s","a","l","n","u","m">>, <<"i","s","a","l",
                        "p","h","a">>, <<"i","s","a","s","c","i","i">>, <<"i","s","d","e","c","i",
                        "m","a","l">>, <<"i","s","d","i","g","i","t">>, <<"i","s","i","d","e","n",
                        "t","i","f","i","e","r">>, <<"i","s","l","o","w","e","r">>, <<"i","s","n",
                        "u","m","e","r","i","c">>, <<"i","s","p","r","i","n","t","a","b","l","e">>, 
                        <<"i","s","s","p","a","c","e">>, <<"i","s","t","i","t","l","e">>, <<"i","s",
                        "u","p","p","e","r">>, <<"j","o","i","n">>, <<"l","j","u","s","t">>, <<"l",
                        "o","w","e","r">>, <<"l","s","t","r","i","p">>, <<"m","a","k","e","t","r",
                        "a","n","s">>, <<"p","a","r","t","i","t","i","o","n">>, <<"r","e","m","o",
                        "v","e","p","r","e","f","i","x">>, <<"r","e","m","o","v","e","s","u","f",
                        "f","i","x">>, <<"r","e","p","l","a","c","e">>, <<"r","f","i","n","d">>, <<
                        "r","i","n","d","e","x">>, <<"r","j","u","s","t">>, <<"r","p","a","r","t",
                        "i","t","i","o","n">>, <<"r","s","p","l","i","t">>, <<"r","s","t","r","i",
                        "p">>, <<"s","p","l","i","t">>, <<"s","p","l","i","t","l","i","n","e","s">>
                        , <<"s","t","a","r","t","s","w","i","t","h">>, <<"s","t","r","i","p">>, <<
                        "s","w","a","p","c","a","s","e">>, <<"t","i","t","l","e">>, <<"t","r","a",
                        "n","s","l","a","t","e">>, <<"u","p","p","e","r">>, <<"z","f","i","l","l">>},
           attrs |-> DictOf(<<
            <<<<"_","_","a","d","d","_","_">>, [sig |-> 1, doc |-> 1]>>,
            <<<<"_","_","b","a","s","e","_","_">>, [sig |-> 2, doc |-> 2]>>,
            <<<<"_","_","b","a","s","e","s","_","_">>, [sig |-> 0, doc |-> 3]>>,
            <<<<"_","_","b","a","s","i","c","s","i","z","e","_","_">>, [sig |-> 0, doc |-> 4]>>,
            <<<<"_","_","c","a","l","l","_","_">>, [sig |-> 3, doc |-> 5]>>,
            <<<<"_","_","c","l","a","s","s","_","_">>, [sig |-> 0, doc |-> 6]>>,
            <<<<"_","_","c","o","n","t","a","i","n","s","_","_">>, [sig |-> 4, doc |-> 7]>>,
            <<<<"_","_","d","e","l","a","t","t","r","_","_">>, [sig |-> 5, doc |-> 8]>>,
            <<<<"_","_","d","i","c","t","_","_">>, [sig |-> 0, doc |-> 0]>>,
            <<<<"_","_","d","i","c","t","o","f","f","s","e","t","_","_">>, [sig |-> 0, doc |-> 4]>>,
            <<<<"_","_","d","i","r","_","_">>, [sig |-> 6, doc |-> 9]>>,
            <<<<"_","_","d","o","c","_","_">>, [sig |-> 0, doc |-> 10]>>,
            <<<<"_","_","e","q","_","_">>, [sig |-> 1, doc |-> 11]>>,
            <<<<"_","_","f","l","a","g","s","_","_">>, [sig |-> 0, doc |-> 4]>>,
            <<<<"_","_","f","o","r","m","a","t","_","_">>, [sig |-> 7, doc |-> 12]>>,
            <<<<"_","_","g","e","_","_">>, [sig |-> 1, doc |-> 13]>>,
            <<<<"_","_","g","e","t","a","t","t","r","i","b","u","t","e","_","_">>, [sig |-> 5, doc |-> 14]>>,
            <<<<"_","_","g","e","t","i","t","e","m","_","_">>, [sig |-> 4, doc |-> 15]>>,
            <<<<"_","_","g","e","t","n","e","w","a","r","g","s","_","_">>, [sig |-> 0, doc |-> 0]>>,
            <<<<"_","_","g","e","t","s","t","a","t","e","_","_">>, [sig |-> 6, doc |-> 16]>>,
            <<<<"_","_","g","t","_","_">>, [sig |-> 1, doc |-> 17]>>,
            <<<<"_","_","h","a","s","h","_","_">>, [sig |-> 6, doc |-> 18]>>,
            <<<<"_","_","i","n","i","t","_","_">>, [sig |-> 8, doc |-> 19]>>,
            <<<<"_","_","i","n","i","t","_","s","u","b","c","l","a","s","s","_","_">>, [sig |-> 0, doc |-> 20]>>,
            <<<<"_","_","i","n","s","t","a","n","c","e","c","h","e","c","k","_","_">>, [sig |-> 9, doc |-> 21]>>,
            <<<<"_","_","i","t","e","m","s","i","z","e","_","_">>, [sig |-> 0, doc |-> 4]>>,
            <<<<"_","_","i","t","e","r","_","_">>, [sig |-> 6, doc |-> 22]>>,
            <<<<"_","_","l","e","_","_">>, [sig |-> 1, doc |-> 23]>>,
            <<<<"_","_","l","e","n","_","_">>, [sig |-> 6, doc |-> 24]>>,
            <<<<"_","_","l","t","_","_">>, [sig |-> 1, doc |-> 25]>>,
            <<<<"_","_","m","o","d","_","_">>, [sig |-> 1, doc |-> 26]>>,
            <<<<"_","_","m","o","d","u","l","e","_","_">>, [sig |-> 0, doc |-> 10]>>,
            <<<<"_","_","m","r","o","_","_">>, [sig |-> 0, doc |-> 3]>>,
            <<<<"_","_","m","u","l","_","_">>, [sig |-> 1, doc |-> 27]>>,
            <<<<"_","_","n","a","m","e","_","_">>, [sig |-> 0, doc |-> 10]>>,
            <<<<"_","_","n","e","_","_">>, [sig |-> 1, doc |-> 28]>>,
            <<<<"_","_","n","e","w","_","_">>, [sig |-> 3, doc |-> 29]>>,
            <<<<"_","_","o","r","_","_">>, [sig |-> 10, doc |-> 30]>>,
            <<<<"_","_","p","r","e","p","a","r","e","_","_">>, [sig |-> 0, doc |-> 31]>>,
            <<<<"_","_","q","u","a","l","n","a","m","e","_","_">>, [sig |-> 0, doc |-> 10]>>,
            <<<<"_","_","r","e","d","u","c","e","_","_">>, [sig |-> 6, doc |-> 16]>>,
            <<<<"_","_","r","e","d","u","c","e","_","e","x","_","_">>, [sig |-> 11, doc |-> 16]>>,
            <<<<"_","_","r","e","p","r","_","_">>, [sig |-> 6, doc |-> 32]>>,
            <<<<"_","_","r","m","o","d","_","_">>, [sig |-> 1, doc |-> 33]>>,
            <<<<"_","_","r","m","u","l","_","_">>, [sig |-> 1, doc |-> 34]>>,
            <<<<"_","_","r","o","r","_","_">>, [sig |-> 10, doc |-> 35]>>,
            <<<<"_","_","s","e","t","a","t","t","r","_","_">>, [sig |-> 12, doc |-> 36]>>,
            <<<<"_","_","s","i","z","e","o","f","_","_">>, [sig |-> 6, doc |-> 37]>>,
            <<<<"_","_","s","t","r","_","_">>, [sig |-> 6, doc |-> 38]>>,
            <<<<"_","_","s","u","b","c","l","a","s","s","c","h","e","c","k","_","_">>, [sig |-> 13, doc |-> 39]>>,
            <<<<"_","_","s","u","b","c","l","a","s","s","e","s","_","_">>, [sig |-> 2, doc |-> 40]>>,
            <<<<"_","_","s","u","b","c","l","a","s","s","h","o","o","k","_","_">>, [sig |-> 0, doc |-> 41]>>,
            <<<<"_","_","t","e","x","t","_","s","i","g","n","a","t","u","r","e","_","_">>, [sig |-> 0, doc |-> 0]>>,
            <<<<"_","_","w","e","a","k","r","e","f","o","f","f","s","e","t","_","_">>, [sig |-> 0, doc |-> 4]>>,
            <<<<"c","a","p","i","t","a","l","i","z","e">>, [sig |-> 6, doc |-> 42]>>,
            <<<<"c","a","s","e","f","o","l","d">>, [sig |-> 6, doc |-> 43]>>,
            <<<<"c","e","n","t","e","r">>, [sig |-> 14, doc |-> 44]>>,
            <<<<"c","o","u","n","t">>, [sig |-> 0, doc |-> 45]>>,
            <<<<"e","n","c","o","d","e">>, [sig |-> 15, doc |-> 46]>>,
            <<<<"e","n","d","s","w","i","t","h">>, [sig |-> 0, doc |-> 47]>>,
            <<<<"e","x","p","a","n","d","t","a","b","s">>, [sig |-> 16, doc |-> 48]>>,
            <<<<"f","i","n","d">>, [sig |-> 0, doc |-> 49]>>,
            <<<<"f","o","r","m","a","t">>, [sig |-> 0, doc |-> 50]>>,
            <<<<"f","o","r","m","a","t","_","m","a","p">>, [sig |-> 0, doc |-> 51]>>,
            <<<<"i","n","d","e","x">>, [sig |-> 0, doc |-> 52]>>,
            <<<<"i","s","a","l","n","u","m">>, [sig |-> 6, doc |-> 53]>>,
            <<<<"i","s","a","l","p","h","a">>, [sig |-> 6, doc |-> 54]>>,
            <<<<"i","s","a","s","c","i","i">>, [sig |-> 6, doc |-> 55]>>,
            <<<<"i","s","d","e","c","i","m","a","l">>, [sig |-> 6, doc |-> 56]>>,
            <<<<"i","s","d","i","g","i","t">>, [sig |-> 6, doc |-> 57]>>,
            <<<<"i","s","i","d","e","n","t","i","f","i","e","r">>, [sig |-> 6, doc |-> 58]>>,
            <<<<"i","s","l","o","w","e","r">>, [sig |-> 6, doc |-> 59]>>,
            <<<<"i","s","n","u","m","e","r","i","c">>, [sig |-> 6, doc |-> 60]>>,
            <<<<"i","s","p","r","i","n","t","a","b","l","e">>, [sig |-> 6, doc |-> 61]>>,
            <<<<"i","s","s","p","a","c","e">>, [sig |-> 6, doc |-> 62]>>,
            <<<<"i","s","t","i","t","l","e">>, [sig |-> 6, doc |-> 63]>>,
            <<<<"i","s","u","p","p","e","r">>, [sig |-> 6, doc |-> 64]>>,
            <<<<"j","o","i","n">>, [sig |-> 17, doc |-> 65]>>,
            <<<<"l","j","u","s","t">>, [sig |-> 14, doc |-> 66]>>,
            <<<<"l","o","w","e","r">>, [sig |-> 6, doc |-> 67]>>,
            <<<<"l","s","t","r","i","p">>, [sig |-> 18, doc |-> 68]>>,
            <<<<"m","a","k","e","t","r","a","n","s">>, [sig |-> 0, doc |-> 69]>>,
            <<<<"m","r","o">>, [sig |-> 2, doc |-> 70]>>,
            <<<<"p","a","r","t","i","t","i","o","n">>, [sig |-> 19, doc |-> 71]>>,
            <<<<"r","e","m","o","v","e","p","r","e","f","i","x">>, [sig |-> 20, doc |-> 72]>>,
            <<<<"r","e","m","o","v","e","s","u","f","f","i","x">>, [sig |-> 21, doc |-> 73]>>,
            <<<<"r","e","p","l","a","c","e">>, [sig |-> 22, doc |-> 74]>>,
            <<<<"r","f","i","n","d">>, [sig |-> 0, doc |-> 75]>>,
            <<<<"r","i","n","d","e","x">>, [sig |-> 0, doc |-> 76]>>,
            <<<<"r","j","u","s","t">>, [sig |-> 14, doc |-> 77]>>,
            <<<<"r","p","a","r","t","i","t","i","o","n">>, [sig |-> 19, doc |-> 78]>>,
            <<<<"r","s","p","l","i","t">>, [sig |-> 23, doc |-> 79]>>,
            <<<<"r","s","t","r","i","p">>, [sig |-> 18, doc |-> 80]>>,
            <<<<"s","p","l","i","t">>, [sig |-> 23, doc |-> 81]>>,
            <<<<"s","p","l","i","t","l","i","n","e","s">>, [sig |-> 24, doc |-> 82]>>,
            <<<<"s","t","a","r","t","s","w","i","t","h">>, [sig |-> 0, doc |-> 83]>>,
            <<<<"s","t","r","i","p">>, [sig |-> 18, doc |-> 84]>>,
            <<<<"s","w","a","p","c","a","s","e">>, [sig |-> 6, doc |-> 85]>>,
            <<<<"t","i","t","l","e">>, [sig |-> 6, doc |-> 86]>>,
            <<<<"t","r","a","n","s","l","a","t","e">>, [sig |-> 25, doc |-> 87]>>,
            <<<<"u","p","p","e","r">>, [sig |-> 6, doc |-> 88]>>,
            <<<<"z","f","i","l","l">>, [sig |-> 26, doc |-> 89]>> >>)]>>,
      <<<<"<class 'int'>">>,
          [dir |-> <<<<"_","_","a","b","s","_","_">>, <<"_","_","a","d","d","_","_">>, <<"_","_","a","n","d","_","_">>
                   , <<"_","_","b","o","o","l","_","_">>, <<"_","_","c","e","i","l","_","_">>, <<
                   "_","_","c","l","a","s","s","_","_">>, <<"_","_","d","e","l","a","t","t","r","_",
                   "_">>, <<"_","_","d","i","r","_","_">>, <<"_","_","d","i","v","m","o","d","_","_"
                   >>, <<"_","_","d","o","c","_","_">>, <<"_","_","e","q","_","_">>, <<"_","_","f",
                   "l","o","a","t","_","_">>, <<"_","_","f","l","o","o","r","_","_">>, <<"_","_",
                   "f","l","o","o","r","d","i","v","_","_">>, <<"_","_","f","o","r","m","a","t","_",
                   "_">>, <<"_","_","g","e","_","_">>, <<"_","_","g","e","t","a","t","t","r","i",
                   "b","u","t","e","_","_">>, <<"_","_","g","e","t","n","e","w","a","r","g","s","_",
                   "_">>, <<"_","_","g","e","t","s","t","a","t","e","_","_">>, <<"_","_","g","t",
                   "_","_">>, <<"_","_","h","a","s","h","_","_">>, <<"_","_","i","n","d","e","x",
                   "_","_">>, <<"_","_","i","n","i","t","_","_">>, <<"_","_","i","n","i","t","_",
                   "s","u","b","c","l","a","s","s","_","_">>, <<"_","_","i","n","t","_","_">>, <<
                   "_","_","i","n","v","e","r","t","_","_">>, <<"_","_","l","e","_","_">>, <<"_",
                   "_","l","s","h","i","f","t","_","_">>, <<"_","_","l","t","_","_">>, <<"_","_",
                   "m","o","d","_","_">>, <<"_","_","m","u","l","_","_">>, <<"_","_","n","e","_","_"
                   >>, <<"_","_","n","e","g","_","_">>, <<"_","_","n","e","w","_","_">>, <<"_","_",
                   "o","r","_","_">>, <<"_","_","p","o","s","_","_">>, <<"_","_","p","o","w","_","_"
                   >>, <<"_","_","r","a","d","d","_","_">>, <<"_","_","r","a","n","d","_","_">>, <<
                   "_","_","r","d","i","v","m","o","d","_","_">>, <<"_","_","r","e","d","u","c","e",
                   "_","_">>, <<"_","_","r","e","d","u","c","e","_","e","x","_","_">>, <<"_","_",
                   "r","e","p","r","_","_">>, <<"_","_","r","f","l","o","o","r","d","i","v","_","_"
                   >>, <<"_","_","r","l","s","h","i","f","t","_","_">>, <<"_","_","r","m","o","d",
                   "_","_">>, <<"_","_","r","m","u","l","_","_">>, <<"_","_","r","o","r","_","_">>, 
                   <<"_","_","r","o","u","n","d","_","_">>, <<"_","_","r","p","o","w","_","_">>, <<
                   "_","_","r","r","s","h","i","f","t","_","_">>, <<"_","_","r","s","h","i","f","t",
                   "_","_">>, <<"_","_","r","s","u","b","_","_">>, <<"_","_","r","t","r","u","e",
                   "d","i","v","_","_">>, <<"_","_","r","x","o","r","_","_">>, <<"_","_","s","e",
                   "t","a","t","t","r","_","_">>, <<"_","_","s","i","z","e","o","f","_","_">>, <<
                   "_","_","s","t","r","_","_">>, <<"_","_","s","u","b","_","_">>, <<"_","_","s",
                   "u","b","c","l","a","s","s","h","o","o","k","_","_">>, <<"_","_","t","r","u","e",
                   "d","i","v","_","_">>, <<"_","_","t","r","u","n","c","_","_">>, <<"_","_","x",
                   "o","r","_","_">>, <<"a","s","_","i","n","t","e","g","e","r","_","r","a","t","i",
                   "o">>, <<"b","i","t","_","c","o","u","n","t">>, <<"b","i","t","_","l","e","n",
                   "g","t","h">>, <<"c","o","n","j","u","g","a","t","e">>, <<"d","e","n","o","m",
                   "i","n","a","t","o","r">>, <<"f","r","o","m","_","b","y","t","e","s">>, <<"i",
                   "m","a","g">>, <<"n","u","m","e","r","a","t","o","r">>, <<"r","e","a","l">>, <<
                   "t","o","_","b","y","t","e","s">>>>,
           callable |-> {<<"_","_","a","b","s","_","_">>, <<"_","_","a","d","d","_","_">>, <<"_","_","a","n","d","_","_">>, 
                        <<"_","_","b","o","o","l","_","_">>, <<"_","_","c","e","i","l","_","_">>, <<
                        "_","_","c","l","a","s","s","_","_">>, <<"_","_","d","e","l","a","t","t",
                        "r","_","_">>, <<"_","_","d","i","r","_","_">>, <<"_","_","d","i","v","m",
                        "o","d","_","_">>, <<"_","_","e","q","_","_">>, <<"_","_","f","l","o","a",
                        "t","_","_">>, <<"_","_","f","l","o","o","r","_","_">>, <<"_","_","f","l",
                        "o","o","r","d","i","v","_","_">>, <<"_","_","f","o","r","m","a","t","_","_"
                        >>, <<"_","_","g","e","_","_">>, <<"_","_","g","e","t","a","t","t","r","i",
                        "b","u","t","e","_","_">>, <<"_","_","g","e","t","n","e","w","a","r","g",
                        "s","_","_">>, <<"_","_","g","e","t","s","t","a","t","e","_","_">>, <<"_",
                        "_","g","t","_","_">>, <<"_","_","h","a","s","h","_","_">>, <<"_","_","i",
                        "n","d","e","x","_","_">>, <<"_","_","i","n","i","t","_","_">>, <<"_","_",
                        "i","n","i","t","_","s","u","b","c","l","a","s","s","_","_">>, <<"_","_",
                        "i","n","t","_","_">>, <<"_","_","i","n","v","e","r","t","_","_">>, <<"_",
                        "_","l","e","_","_">>, <<"_","_","l","s","h","i","f","t","_","_">>, <<"_",
                        "_","l","t","_","_">>, <<"_","_","m","o","d","_","_">>, <<"_","_","m","u",
                        "l","_","_">>, <<"_","_","n","e","_","_">>, <<"_","_","n","e","g","_","_">>
                        , <<"_","_","n","e","w","_","_">>, <<"_","_","o","r","_","_">>, <<"_","_",
                        "p","o","s","_","_">>, <<"_","_","p","o","w","_","_">>, <<"_","_","r","a",
                        "d","d","_","_">>, <<"_","_","r","a","n","d","_","_">>, <<"_","_","r","d",
                        "i","v","m","o","d","_","_">>, <<"_","_","r","e","d","u","c","e","_","_">>, 
                        <<"_","_","r","e","d","u","c","e","_","e","x","_","_">>, <<"_","_","r","e",
                        "p","r","_","_">>, <<"_","_","r","f","l","o","o","r","d","i","v","_","_">>, 
                        <<"_","_","r","l","s","h","i","f","t","_","_">>, <<"_","_","r","m","o","d",
                        "_","_">>, <<"_","_","r","m","u","l","_","_">>, <<"_","_","r","o","r","_",
                        "_">>, <<"_","_","r","o","u","n","d","_","_">>, <<"_","_","r","p","o","w",
                        "_","_">>, <<"_","_","r","r","s","h","i","f","t","_","_">>, <<"_","_","r",
                        "s","h","i","f","t","_","_">>, <<"_","_","r","s","u","b","_","_">>, <<"_",
                        "_","r","t","r","u","e","d","i","v","_","_">>, <<"_","_","r","x","o","r",
                        "_","_">>, <<"_","_","s","e","t","a","t","t","r","_","_">>, <<"_","_","s",
                        "i","z","e","o","f","_","_">>, <<"_","_","s","t","r","_","_">>, <<"_","_",
                        "s","u","b","_","_">>, <<"_","_","s","u","b","c","l","a","s","s","h","o",
                        "o","k","_","_">>, <<"_","_","t","r","u","e","d","i","v","_","_">>, <<"_",
                        "_","t","r","u","n","c","_","_">>, <<"_","_","x","o","r","_","_">>, <<"a",
                        "s","_","i","n","t","e","g","e","r","_","r","a","t","i","o">>, <<"b","i",
                        "t","_","c","o","u","n","t">>, <<"b","i","t","_","l","e","n","g","t","h">>, 
                        <<"c","o","n","j","u","g","a","t","e">>, <<"f","r","o","m","_","b","y","t",
                        "e","s">>, <<"t","o","_","b","y","t","e","s">>},
           attrs |-> DictOf(<<
            <<<<"_","_","a","b","s","_","_">>, [sig |-> 6, doc |-> 90]>>,
            <<<<"_","_","a","d","d","_","_">>, [sig |-> 1, doc |-> 1]>>,
            <<<<"_","_","a","n","d","_","_">>, [sig |-> 1, doc |-> 91]>>,
            <<<<"_","_","b","a","s","e","_","_">>, [sig |-> 2, doc |-> 2]>>,
            <<<<"_","_","b","a","s","e","s","_","_">>, [sig |-> 0, doc |-> 3]>>,
            <<<<"_","_","b","a","s","i","c","s","i","z","e","_","_">>, [sig |-> 0, doc |-> 4]>>,
            <<<<"_","_","b","o","o","l","_","_">>, [sig |-> 6, doc |-> 92]>>,
            <<<<"_","_","c","a","l","l","_","_">>, [sig |-> 3, doc |-> 5]>>,
            <<<<"_","_","c","e","i","l","_","_">>, [sig |-> 0, doc |-> 93]>>,
            <<<<"_","_","c","l","a","s","s","_","_">>, [sig |-> 0, doc |-> 6]>>,
            <<<<"_","_","d","e","l","a","t","t","r","_","_">>, [sig |-> 5, doc |-> 8]>>,
            <<<<"_","_","d","i","c","t","_","_">>, [sig |-> 0, doc |-> 0]>>,
            <<<<"_","_","d","i","c","t","o","f","f","s","e","t","_","_">>, [sig |-> 0, doc |-> 4]>>,
            <<<<"_","_","d","i","r","_","_">>, [sig |-> 6, doc |-> 9]>>,
            <<<<"_","_","d","i","v","m","o","d","_","_">>, [sig |-> 1, doc |-> 94]>>,
            <<<<"_","_","d","o","c","_","_">>, [sig |-> 0, doc |-> 10]>>,
            <<<<"_","_","e","q","_","_">>, [sig |-> 1, doc |-> 11]>>,
            <<<<"_","_","f","l","a","g","s","_","_">>, [sig |-> 0, doc |-> 4]>>,
            <<<<"_","_","f","l","o","a","t","_","_">>, [sig |-> 6, doc |-> 95]>>,
            <<<<"_","_","f","l","o","o","r","_","_">>, [sig |-> 0, doc |-> 96]>>,
            <<<<"_","_","f","l","o","o","r","d","i","v","_","_">>, [sig |-> 1, doc |-> 97]>>,
            <<<<"_","_","f","o","r","m","a","t","_","_">>, [sig |-> 7, doc |-> 98]>>,
            <<<<"_","_","g","e","_","_">>, [sig |-> 1, doc |-> 13]>>,
            <<<<"_","_","g","e","t","a","t","t","r","i","b","u","t","e","_","_">>, [sig |-> 5, doc |-> 14]>>,
            <<<<"_","_","g","e","t","n","e","w","a","r","g","s","_","_">>, [sig |-> 6, doc |-> 0]>>,
            <<<<"_","_","g","e","t","s","t","a","t","e","_","_">>, [sig |-> 6, doc |-> 16]>>,
            <<<<"_","_","g","t","_","_">>, [sig |-> 1, doc |-> 17]>>,
            <<<<"_","_","h","a","s","h","_","_">>, [sig |-> 6, doc |-> 18]>>,
            <<<<"_","_","i","n","d","e","x","_","_">>, [sig |-> 6, doc |-> 99]>>,
            <<<<"_","_","i","n","i","t","_","_">>, [sig |-> 8, doc |-> 19]>>,
            <<<<"_","_","i","n","i","t","_","s","u","b","c","l","a","s","s","_","_">>, [sig |-> 0, doc |-> 20]>>,
            <<<<"_","_","i","n","s","t","a","n","c","e","c","h","e","c","k","_","_">>, [sig |-> 9, doc |-> 21]>>,
            <<<<"_","_","i","n","t","_","_">>, [sig |-> 6, doc |-> 100]>>,
            <<<<"_","_","i","n","v","e","r","t","_","_">>, [sig |-> 6, doc |-> 101]>>,
            <<<<"_","_","i","t","e","m","s","i","z","e","_","_">>, [sig |-> 0, doc |-> 4]>>,
            <<<<"_","_","l","e","_","_">>, [sig |-> 1, doc |-> 23]>>,
            <<<<"_","_","l","s","h","i","f","t","_","_">>, [sig |-> 1, doc |-> 102]>>,
            <<<<"_","_","l","t","_","_">>, [sig |-> 1, doc |-> 25]>>,
            <<<<"_","_","m","o","d","_","_">>, [sig |-> 1, doc |-> 26]>>,
            <<<<"_","_","m","o","d","u","l","e","_","_">>, [sig |-> 0, doc |-> 10]>>,
            <<<<"_","_","m","r","o","_","_">>, [sig |-> 0, doc |-> 3]>>,
            <<<<"_","_","m","u","l","_","_">>, [sig |-> 1, doc |-> 27]>>,
            <<<<"_","_","n","a","m","e","_","_">>, [sig |-> 0, doc |-> 10]>>,
            <<<<"_","_","n","e","_","_">>, [sig |-> 1, doc |-> 28]>>,
            <<<<"_","_","n","e","g","_","_">>, [sig |-> 6, doc |-> 103]>>,
            <<<<"_","_","n","e","w","_","_">>, [sig |-> 3, doc |-> 29]>>,
            <<<<"_","_","o","r","_","_">>, [sig |-> 1, doc |-> 30]>>,
            <<<<"_","_","p","o","s","_","_">>, [sig |-> 6, doc |-> 104]>>,
            <<<<"_","_","p","o","w","_","_">>, [sig |-> 27, doc |-> 105]>>,
            <<<<"_","_","p","r","e","p","a","r","e","_","_">>, [sig |-> 0, doc |-> 31]>>,
            <<<<"_","_","q","u","a","l","n","a","m","e","_","_">>, [sig |-> 0, doc |-> 10]>>,
            <<<<"_","_","r","a","d","d","_","_">>, [sig |-> 1, doc |-> 106]>>,
            <<<<"_","_","r","a","n","d","_","_">>, [sig |-> 1, doc |-> 107]>>,
            <<<<"_","_","r","d","i","v","m","o","d","_","_">>, [sig |-> 1, doc |-> 108]>>,
            <<<<"_","_","r","e","d","u","c","e","_","_">>, [sig |-> 6, doc |-> 16]>>,
            <<<<"_","_","r","e","d","u","c","e","_","e","x","_","_">>, [sig |-> 11, doc |-> 16]>>,
            <<<<"_","_","r","e","p","r","_","_">>, [sig |-> 6, doc |-> 32]>>,
            <<<<"_","_","r","f","l","o","o","r","d","i","v","_","_">>, [sig |-> 1, doc |-> 109]>>,
            <<<<"_","_","r","l","s","h","i","f","t","_","_">>, [sig |-> 1, doc |-> 110]>>,
            <<<<"_","_","r","m","o","d","_","_">>, [sig |-> 1, doc |-> 33]>>,
            <<<<"_","_","r","m","u","l","_","_">>, [sig |-> 1, doc |-> 34]>>,
            <<<<"_","_","r","o","r","_","_">>, [sig |-> 1, doc |-> 35]>>,
            <<<<"_","_","r","o","u","n","d","_","_">>, [sig |-> 0, doc |-> 111]>>,
            <<<<"_","_","r","p","o","w","_","_">>, [sig |-> 27, doc |-> 112]>>,
            <<<<"_","_","r","r","s","h","i","f","t","_","_">>, [sig |-> 1, doc |-> 113]>>,
            <<<<"_","_","r","s","h","i","f","t","_","_">>, [sig |-> 1, doc |-> 114]>>,
            <<<<"_","_","r","s","u","b","_","_">>, [sig |-> 1, doc |-> 115]>>,
            <<<<"_","_","r","t","r","u","e","d","i","v","_","_">>, [sig |-> 1, doc |-> 116]>>,
            <<<<"_","_","r","x","o","r","_","_">>, [sig |-> 1, doc |-> 117]>>,
            <<<<"_","_","s","e","t","a","t","t","r","_","_">>, [sig |-> 12, doc |-> 36]>>,
            <<<<"_","_","s","i","z","e","o","f","_","_">>, [sig |-> 6, doc |-> 118]>>,
            <<<<"_","_","s","t","r","_","_">>, [sig |-> 6, doc |-> 38]>>,
            <<<<"_","_","s","u","b","_","_">>, [sig |-> 1, doc |-> 119]>>,
            <<<<"_","_","s","u","b","c","l","a","s","s","c","h","e","c","k","_","_">>, [sig |-> 13, doc |-> 39]>>,
            <<<<"_","_","s","u","b","c","l","a","s","s","e","s","_","_">>, [sig |-> 2, doc |-> 40]>>,
            <<<<"_","_","s","u","b","c","l","a","s","s","h","o","o","k","_","_">>, [sig |-> 0, doc |-> 41]>>,
            <<<<"_","_","t","e","x","t","_","s","i","g","n","a","t","u","r","e","_","_">>, [sig |-> 0, doc |-> 0]>>,
            <<<<"_","_","t","r","u","e","d","i","v","_","_">>, [sig |-> 1, doc |-> 120]>>,
            <<<<"_","_","t","r","u","n","c","_","_">>, [sig |-> 0, doc |-> 121]>>,
            <<<<"_","_","w","e","a","k","r","e","f","o","f","f","s","e","t","_","_">>, [sig |-> 0, doc |-> 4]>>,
            <<<<"_","_","x","o","r","_","_">>, [sig |-> 1, doc |-> 122]>>,
            <<<<"a","s","_","i","n","t","e","g","e","r","_","r","a","t","i","o">>, [sig |-> 6, doc |-> 123]>>,
            <<<<"b","i","t","_","c","o","u","n","t">>, [sig |-> 6, doc |-> 124]>>,
            <<<<"b","i","t","_","l","e","n","g","t","h">>, [sig |-> 6, doc |-> 125]>>,
            <<<<"c","o","n","j","u","g","a","t","e">>, [sig |-> 0, doc |-> 126]>>,
            <<<<"d","e","n","o","m","i","n","a","t","o","r">>, [sig |-> 0, doc |-> 127]>>,
            <<<<"f","r","o","m","_","b","y","t","e","s">>, [sig |-> 28, doc |-> 128]>>,
            <<<<"i","m","a","g">>, [sig |-> 0, doc |-> 129]>>,
            <<<<"m","r","o">>, [sig |-> 2, doc |-> 70]>>,
            <<<<"n","u","m","e","r","a","t","o","r">>, [sig |-> 0, doc |-> 130]>>,
            <<<<"r","e","a","l">>, [sig |-> 0, doc |-> 131]>>,
            <<<<"t","o","_","b","y","t","e","s">>, [sig |-> 29, doc |-> 132]>> >>)]>>,
      <<<<"<class 'float'>">>,
          [dir |-> <<<<"_","_","a","b","s","_","_">>, <<"_","_","a","d","d","_","_">>, <<"_","_","b","o","o","l","_",
                   "_">>, <<"_","_","c","e","i","l","_","_">>, <<"_","_","c","l","a","s","s","_","_"
                   >>, <<"_","_","d","e","l","a","t","t","r","_","_">>, <<"_","_","d","i","r","_",
                   "_">>, <<"_","_","d","i","v","m","o","d","_","_">>, <<"_","_","d","o","c","_","_"
                   >>, <<"_","_","e","q","_","_">>, <<"_","_","f","l","o","a","t","_","_">>, <<"_",
                   "_","f","l","o","o","r","_","_">>, <<"_","_","f","l","o","o","r","d","i","v","_",
                   "_">>, <<"_","_","f","o","r","m","a","t","_","_">>, <<"_","_","g","e","_","_">>, 
                   <<"_","_","g","e","t","a","t","t","r","i","b","u","t","e","_","_">>, <<"_","_",
                   "g","e","t","f","o","r","m","a","t","_","_">>, <<"_","_","g","e","t","n","e","w",
                   "a","r","g","s","_","_">>, <<"_","_","g","e","t","s","t","a","t","e","_","_">>, 
                   <<"_","_","g","t","_","_">>, <<"_","_","h","a","s","h","_","_">>, <<"_","_","i",
                   "n","i","t","_","_">>, <<"_","_","i","n","i","t","_","s","u","b","c","l","a","s",
                   "s","_","_">>, <<"_","_","i","n","t","_","_">>, <<"_","_","l","e","_","_">>, <<
                   "_","_","l","t","_","_">>, <<"_","_","m","o","d","_","_">>, <<"_","_","m","u",
                   "l","_","_">>, <<"_","_","n","e","_","_">>, <<"_","_","n","e","g","_","_">>, <<
                   "_","_","n","e","w","_","_">>, <<"_","_","p","o","s","_","_">>, <<"_","_","p",
                   "o","w","_","_">>, <<"_","_","r","a","d","d","_","_">>, <<"_","_","r","d","i",
                   "v","m","o","d","_","_">>, <<"_","_","r","e","d","u","c","e","_","_">>, <<"_",
                   "_","r","e","d","u","c","e","_","e","x","_","_">>, <<"_","_","r","e","p","r","_",
                   "_">>, <<"_","_","r","f","l","o","o","r","d","i","v","_","_">>, <<"_","_","r",
                   "m","o","d","_","_">>, <<"_","_","r","m","u","l","_","_">>, <<"_","_","r","o",
                   "u","n","d","_","_">>, <<"_","_","r","p","o","w","_","_">>, <<"_","_","r","s",
                   "u","b","_","_">>, <<"_","_","r","t","r","u","e","d","i","v","_","_">>, <<"_",
                   "_","s","e","t","a","t","t","r","_","_">>, <<"_","_","s","i","z","e","o","f","_",
                   "_">>, <<"_","_","s","t","r","_","_">>, <<"_","_","s","u","b","_","_">>, <<"_",
                   "_","s","u","b","c","l","a","s","s","h","o","o","k","_","_">>, <<"_","_","t","r",
                   "u","e","d","i","v","_","_">>, <<"_","_","t","r","u","n","c","_","_">>, <<"a",
                   "s","_","i","n","t","e","g","e","r","_","r","a","t","i","o">>, <<"c","o","n","j",
                   "u","g","a","t","e">>, <<"f","r","o","m","h","e","x">>, <<"h","e","x">>, <<"i",
                   "m","a","g">>, <<"i","s","_","i","n","t","e","g","e","r">>, <<"r","e","a","l">>>>,
           callable |-> {<<"_","_","a","b","s","_","_">>, <<"_","_","a","d","d","_","_">>, <<"_","_","b","o","o","l","_","_"
                        >>, <<"_","_","c","e","i","l","_","_">>, <<"_","_","c","l","a","s","s","_",
                        "_">>, <<"_","_","d","e","l","a","t","t","r","_","_">>, <<"_","_","d","i",
                        "r","_","_">>, <<"_","_","d","i","v","m","o","d","_","_">>, <<"_","_","e",
                        "q","_","_">>, <<"_","_","f","l","o","a","t","_","_">>, <<"_","_","f","l",
                        "o","o","r","_","_">>, <<"_","_","f","l","o","o","r","d","i","v","_","_">>, 
                        <<"_","_","f","o","r","m","a","t","_","_">>, <<"_","_","g","e","_","_">>, <<
                        "_","_","g","e","t","a","t","t","r","i","b","u","t","e","_","_">>, <<"_",
                        "_","g","e","t","f","o","r","m","a","t","_","_">>, <<"_","_","g","e","t",
                        "n","e","w","a","r","g","s","_","_">>, <<"_","_","g","e","t","s","t","a",
                        "t","e","_","_">>, <<"_","_","g","t","_","_">>, <<"_","_","h","a","s","h",
                        "_","_">>, <<"_","_","i","n","i","t","_","_">>, <<"_","_","i","n","i","t",
                        "_","s","u","b","c","l","a","s","s","_","_">>, <<"_","_","i","n","t","_","_"
                        >>, <<"_","_","l","e","_","_">>, <<"_","_","l","t","_","_">>, <<"_","_","m",
                        "o","d","_","_">>, <<"_","_","m","u","l","_","_">>, <<"_","_","n","e","_",
                        "_">>, <<"_","_","n","e","g","_","_">>, <<"_","_","n","e","w","_","_">>, <<
                        "_","_","p","o","s","_","_">>, <<"_","_","p","o","w","_","_">>, <<"_","_",
                        "r","a","d","d","_","_">>, <<"_","_","r","d","i","v","m","o","d","_","_">>, 
                        <<"_","_","r","e","d","u","c","e","_","_">>, <<"_","_","r","e","d","u","c",
                        "e","_","e","x","_","_">>, <<"_","_","r","e","p","r","_","_">>, <<"_","_",
                        "r","f","l","o","o","r","d","i","v","_","_">>, <<"_","_","r","m","o","d",
                        "_","_">>, <<"_","_","r","m","u","l","_","_">>, <<"_","_","r","o","u","n",
                        "d","_","_">>, <<"_","_","r","p","o","w","_","_">>, <<"_","_","r","s","u",
                        "b","_","_">>, <<"_","_","r","t","r","u","e","d","i","v","_","_">>, <<"_",
                        "_","s","e","t","a","t","t","r","_","_">>, <<"_","_","s","i","z","e","o",
                        "f","_","_">>, <<"_","_","s","t","r","_","_">>, <<"_","_","s","u","b","_",
                        "_">>, <<"_","_","s","u","b","c","l","a","s","s","h","o","o","k","_","_">>, 
                        <<"_","_","t","r","u","e","d","i","v","_","_">>, <<"_","_","t","r","u","n",
                        "c","_","_">>, <<"a","s","_","i","n","t","e","g","e","r","_","r","a","t",
                        "i","o">>, <<"c","o","n","j","u","g","a","t","e">>, <<"f","r","o","m","h",
                        "e","x">>, <<"h","e","x">>, <<"i","s","_","i","n","t","e","g","e","r">>},
           attrs |-> DictOf(<<
            <<<<"_","_","a","b","s","_","_">>, [sig |-> 6, doc |-> 90]>>,
            <<<<"_","_","a","d","d","_","_">>, [sig |-> 1, doc |-> 1]>>,
            <<<<"_","_","b","a","s","e","_","_">>, [sig |-> 2, doc |-> 2]>>,
            <<<<"_","_","b","a","s","e","s","_","_">>, [sig |-> 0, doc |-> 3]>>,
            <<<<"_","_","b","a","s","i","c","s","i","z","e","_","_">>, [sig |-> 0, doc |-> 4]>>,
            <<<<"_","_","b","o","o","l","_","_">>, [sig |-> 6, doc |-> 92]>>,
            <<<<"_","_","c","a","l","l","_","_">>, [sig |-> 3, doc |-> 5]>>,
            <<<<"_","_","c","e","i","l","_","_">>, [sig |-> 6, doc |-> 133]>>,
            <<<<"_","_","c","l","a","s","s","_","_">>, [sig |-> 0, doc |-> 6]>>,
            <<<<"_","_","d","e","l","a","t","t","r","_","_">>, [sig |-> 5, doc |-> 8]>>,
            <<<<"_","_","d","i","c","t","_","_">>, [sig |-> 0, doc |-> 0]>>,
            <<<<"_","_","d","i","c","t","o","f","f","s","e","t","_","_">>, [sig |-> 0, doc |-> 4]>>,
            <<<<"_","_","d","i","r","_","_">>, [sig |-> 6, doc |-> 9]>>,
            <<<<"_","_","d","i","v","m","o","d","_","_">>, [sig |-> 1, doc |-> 94]>>,
            <<<<"_","_","d","o","c","_","_">>, [sig |-> 0, doc |-> 10]>>,
            <<<<"_","_","e","q","_","_">>, [sig |-> 1, doc |-> 11]>>,
            <<<<"_","_","f","l","a","g","s","_","_">>, [sig |-> 0, doc |-> 4]>>,
            <<<<"_","_","f","l","o","a","t","_","_">>, [sig |-> 6, doc |-> 95]>>,
            <<<<"_","_","f","l","o","o","r","_","_">>, [sig |-> 6, doc |-> 134]>>,
            <<<<"_","_","f","l","o","o","r","d","i","v","_","_">>, [sig |-> 1, doc |-> 97]>>,
            <<<<"_","_","f","o","r","m","a","t","_","_">>, [sig |-> 7, doc |-> 135]>>,
            <<<<"_","_","g","e","_","_">>, [sig |-> 1, doc |-> 13]>>,
            <<<<"_","_","g","e","t","a","t","t","r","i","b","u","t","e","_","_">>, [sig |-> 5, doc |-> 14]>>,
            <<<<"_","_","g","e","t","f","o","r","m","a","t","_","_">>, [sig |-> 30, doc |-> 136]>>,
            <<<<"_","_","g","e","t","n","e","w","a","r","g","s","_","_">>, [sig |-> 6, doc |-> 0]>>,
            <<<<"_","_","g","e","t","s","t","a","t","e","_","_">>, [sig |-> 6, doc |-> 16]>>,
            <<<<"_","_","g","t","_","_">>, [sig |-> 1, doc |-> 17]>>,
            <<<<"_","_","h","a","s","h","_","_">>, [sig |-> 6, doc |-> 18]>>,
            <<<<"_","_","i","n","i","t","_","_">>, [sig |-> 8, doc |-> 19]>>,
            <<<<"_","_","i","n","i","t","_","s","u","b","c","l","a","s","s","_","_">>, [sig |-> 0, doc |-> 20]>>,
            <<<<"_","_","i","n","s","t","a","n","c","e","c","h","e","c","k","_","_">>, [sig |-> 9, doc |-> 21]>>,
            <<<<"_","_","i","n","t","_","_">>, [sig |-> 6, doc |-> 100]>>,
            <<<<"_","_","i","t","e","m","s","i","z","e","_","_">>, [sig |-> 0, doc |-> 4]>>,
            <<<<"_","_","l","e","_","_">>, [sig |-> 1, doc |-> 23]>>,
            <<<<"_","_","l","t","_","_">>, [sig |-> 1, doc |-> 25]>>,
            <<<<"_","_","m","o","d","_","_">>, [sig |-> 1, doc |-> 26]>>,
            <<<<"_","_","m","o","d","u","l","e","_","_">>, [sig |-> 0, doc |-> 10]>>,
            <<<<"_","_","m","r","o","_","_">>, [sig |-> 0, doc |-> 3]>>,
            <<<<"_","_","m","u","l","_","_">>, [sig |-> 1, doc |-> 27]>>,
            <<<<"_","_","n","a","m","e","_","_">>, [sig |-> 0, doc |-> 10]>>,
            <<<<"_","_","n","e","_","_">>, [sig |-> 1, doc |-> 28]>>,
            <<<<"_","_","n","e","g","_","_">>, [sig |-> 6, doc |-> 103]>>,
            <<<<"_","_","n","e","w","_","_">>, [sig |-> 3, doc |-> 29]>>,
            <<<<"_","_","o","r","_","_">>, [sig |-> 10, doc |-> 30]>>,
            <<<<"_","_","p","o","s","_","_">>, [sig |-> 6, doc |-> 104]>>,
            <<<<"_","_","p","o","w","_","_">>, [sig |-> 27, doc |-> 105]>>,
            <<<<"_","_","p","r","e","p","a","r","e","_","_">>, [sig |-> 0, doc |-> 31]>>,
            <<<<"_","_","q","u","a","l","n","a","m","e","_","_">>, [sig |-> 0, doc |-> 10]>>,
            <<<<"_","_","r","a","d","d","_","_">>, [sig |-> 1, doc |-> 106]>>,
            <<<<"_","_","r","d","i","v","m","o","d","_","_">>, [sig |-> 1, doc |-> 108]>>,
            <<<<"_","_","r","e","d","u","c","e","_","_">>, [sig |-> 6, doc |-> 16]>>,
            <<<<"_","_","r","e","d","u","c","e","_","e","x","_","_">>, [sig |-> 11, doc |-> 16]>>,
            <<<<"_","_","r","e","p","r","_","_">>, [sig |-> 6, doc |-> 32]>>,
            <<<<"_","_","r","f","l","o","o","r","d","i","v","_","_">>, [sig |-> 1, doc |-> 109]>>,
            <<<<"_","_","r","m","o","d","_","_">>, [sig |-> 1, doc |-> 33]>>,
            <<<<"_","_","r","m","u","l","_","_">>, [sig |-> 1, doc |-> 34]>>,
            <<<<"_","_","r","o","r","_","_">>, [sig |-> 10, doc |-> 35]>>,
            <<<<"_","_","r","o","u","n","d","_","_">>, [sig |-> 31, doc |-> 137]>>,
            <<<<"_","_","r","p","o","w","_","_">>, [sig |-> 27, doc |-> 112]>>,
            <<<<"_","_","r","s","u","b","_","_">>, [sig |-> 1, doc |-> 115]>>,
            <<<<"_","_","r","t","r","u","e","d","i","v","_","_">>, [sig |-> 1, doc |-> 116]>>,
            <<<<"_","_","s","e","t","a","t","t","r","_","_">>, [sig |-> 12, doc |-> 36]>>,
            <<<<"_","_","s","i","z","e","o","f","_","_">>, [sig |-> 6, doc |-> 138]>>,
            <<<<"_","_","s","t","r","_","_">>, [sig |-> 6, doc |-> 38]>>,
            <<<<"_","_","s","u","b","_","_">>, [sig |-> 1, doc |-> 119]>>,
            <<<<"_","_","s","u","b","c","l","a","s","s","c","h","e","c","k","_","_">>, [sig |-> 13, doc |-> 39]>>,
            <<<<"_","_","s","u","b","c","l","a","s","s","e","s","_","_">>, [sig |-> 2, doc |-> 40]>>,
            <<<<"_","_","s","u","b","c","l","a","s","s","h","o","o","k","_","_">>, [sig |-> 0, doc |-> 41]>>,
            <<<<"_","_","t","e","x","t","_","s","i","g","n","a","t","u","r","e","_","_">>, [sig |-> 0, doc |-> 10]>>,
            <<<<"_","_","t","r","u","e","d","i","v","_","_">>, [sig |-> 1, doc |-> 120]>>,
            <<<<"_","_","t","r","u","n","c","_","_">>, [sig |-> 6, doc |-> 139]>>,
            <<<<"_","_","w","e","a","k","r","e","f","o","f","f","s","e","t","_","_">>, [sig |-> 0, doc |-> 4]>>,
            <<<<"a","s","_","i","n","t","e","g","e","r","_","r","a","t","i","o">>, [sig |-> 6, doc |-> 140]>>,
            <<<<"c","o","n","j","u","g","a","t","e">>, [sig |-> 6, doc |-> 141]>>,
            <<<<"f","r","o","m","h","e","x">>, [sig |-> 32, doc |-> 142]>>,
            <<<<"h","e","x">>, [sig |-> 6, doc |-> 143]>>,
            <<<<"i","m","a","g">>, [sig |-> 0, doc |-> 129]>>,
            <<<<"i","s","_","i","n","t","e","g","e","r">>, [sig |-> 6, doc |-> 144]>>,
            <<<<"m","r","o">>, [sig |-> 2, doc |-> 70]>>,
            <<<<"r","e","a","l">>, [sig |-> 0, doc |-> 131]>> >>)]>>,
      <<<<"<class 'complex'>">>,
          [dir |-> <<<<"_","_","a","b","s","_","_">>, <<"_","_","a","d","d","_","_">>, <<"_","_","b","o","o","l","_",
                   "_">>, <<"_","_","c","l","a","s","s","_","_">>, <<"_","_","c","o","m","p","l",
                   "e","x","_","_">>, <<"_","_","d","e","l","a","t","t","r","_","_">>, <<"_","_",
                   "d","i","r","_","_">>, <<"_","_","d","o","c","_","_">>, <<"_","_","e","q","_","_"
                   >>, <<"_","_","f","o","r","m","a","t","_","_">>, <<"_","_","g","e","_","_">>, <<
                   "_","_","g","e","t","a","t","t","r","i","b","u","t","e","_","_">>, <<"_","_","g",
                   "e","t","n","e","w","a","r","g","s","_","_">>, <<"_","_","g","e","t","s","t","a",
                   "t","e","_","_">>, <<"_","_","g","t","_","_">>, <<"_","_","h","a","s","h","_","_"
                   >>, <<"_","_","i","n","i","t","_","_">>, <<"_","_","i","n","i","t","_","s","u",
                   "b","c","l","a","s","s","_","_">>, <<"_","_","l","e","_","_">>, <<"_","_","l",
                   "t","_","_">>, <<"_","_","m","u","l","_","_">>, <<"_","_","n","e","_","_">>, <<
                   "_","_","n","e","g","_","_">>, <<"_","_","n","e","w","_","_">>, <<"_","_","p",
                   "o","s","_","_">>, <<"_","_","p","o","w","_","_">>, <<"_","_","r","a","d","d",
                   "_","_">>, <<"_","_","r","e","d","u","c","e","_","_">>, <<"_","_","r","e","d",
                   "u","c","e","_","e","x","_","_">>, <<"_","_","r","e","p","r","_","_">>, <<"_",
                   "_","r","m","u","l","_","_">>, <<"_","_","r","p","o","w","_","_">>, <<"_","_",
                   "r","s","u","b","_","_">>, <<"_","_","r","t","r","u","e","d","i","v","_","_">>, 
                   <<"_","_","s","e","t","a","t","t","r","_","_">>, <<"_","_","s","i","z","e","o",
                   "f","_","_">>, <<"_","_","s","t","r","_","_">>, <<"_","_","s","u","b","_","_">>, 
                   <<"_","_","s","u","b","c","l","a","s","s","h","o","o","k","_","_">>, <<"_","_",
                   "t","r","u","e","d","i","v","_","_">>, <<"c","o","n","j","u","g","a","t","e">>, 
                   <<"i","m","a","g">>, <<"r","e","a","l">>>>,
           callable |-> {<<"_","_","a","b","s","_","_">>, <<"_","_","a","d","d","_","_">>, <<"_","_","b","o","o","l","_","_"
                        >>, <<"_","_","c","l","a","s","s","_","_">>, <<"_","_","c","o","m","p","l",
                        "e","x","_","_">>, <<"_","_","d","e","l","a","t","t","r","_","_">>, <<"_",
                        "_","d","i","r","_","_">>, <<"_","_","e","q","_","_">>, <<"_","_","f","o",
                        "r","m","a","t","_","_">>, <<"_","_","g","e","_","_">>, <<"_","_","g","e",
                        "t","a","t","t","r","i","b","u","t","e","_","_">>, <<"_","_","g","e","t",
                        "n","e","w","a","r","g","s","_","_">>, <<"_","_","g","e","t","s","t","a",
                        "t","e","_","_">>, <<"_","_","g","t","_","_">>, <<"_","_","h","a","s","h",
                        "_","_">>, <<"_","_","i","n","i","t","_","_">>, <<"_","_","i","n","i","t",
                        "_","s","u","b","c","l","a","s","s","_","_">>, <<"_","_","l","e","_","_">>, 
                        <<"_","_","l","t","_","_">>, <<"_","_","m","u","l","_","_">>, <<"_","_","n",
                        "e","_","_">>, <<"_","_","n","e","g","_","_">>, <<"_","_","n","e","w","_",
                        "_">>, <<"_","_","p","o","s","_","_">>, <<"_","_","p","o","w","_","_">>, <<
                        "_","_","r","a","d","d","_","_">>, <<"_","_","r","e","d","u","c","e","_","_"
                        >>, <<"_","_","r","e","d","u","c","e","_","e","x","_","_">>, <<"_","_","r",
                        "e","p","r","_","_">>, <<"_","_","r","m","u","l","_","_">>, <<"_","_","r",
                        "p","o","w","_","_">>, <<"_","_","r","s","u","b","_","_">>, <<"_","_","r",
                        "t","r","u","e","d","i","v","_","_">>, <<"_","_","s","e","t","a","t","t",
                        "r","_","_">>, <<"_","_","s","i","z","e","o","f","_","_">>, <<"_","_","s",
                        "t","r","_","_">>, <<"_","_","s","u","b","_","_">>, <<"_","_","s","u","b",
                        "c","l","a","s","s","h","o","o","k","_","_">>, <<"_","_","t","r","u","e",
                        "d","i","v","_","_">>, <<"c","o","n","j","u","g","a","t","e">>},
           attrs |-> DictOf(<<
            <<<<"_","_","a","b","s","_","_">>, [sig |-> 6, doc |-> 90]>>,
            <<<<"_","_","a","d","d","_","_">>, [sig |-> 1, doc |-> 1]>>,
            <<<<"_","_","b","a","s","e","_","_">>, [sig |-> 2, doc |-> 2]>>,
            <<<<"_","_","b","a","s","e","s","_","_">>, [sig |-> 0, doc |-> 3]>>,
            <<<<"_","_","b","a","s","i","c","s","i","z","e","_","_">>, [sig |-> 0, doc |-> 4]>>,
            <<<<"_","_","b","o","o","l","_","_">>, [sig |-> 6, doc |-> 92]>>,
            <<<<"_","_","c","a","l","l","_","_">>, [sig |-> 3, doc |-> 5]>>,
            <<<<"_","_","c","l","a","s","s","_","_">>, [sig |-> 0, doc |-> 6]>>,
            <<<<"_","_","c","o","m","p","l","e","x","_","_">>, [sig |-> 6, doc |-> 145]>>,
            <<<<"_","_","d","e","l","a","t","t","r","_","_">>, [sig |-> 5, doc |-> 8]>>,
            <<<<"_","_","d","i","c","t","_","_">>, [sig |-> 0, doc |-> 0]>>,
            <<<<"_","_","d","i","c","t","o","f","f","s","e","t","_","_">>, [sig |-> 0, doc |-> 4]>>,
            <<<<"_","_","d","i","r","_","_">>, [sig |-> 6, doc |-> 9]>>,
            <<<<"_","_","d","o","c","_","_">>, [sig |-> 0, doc |-> 10]>>,
            <<<<"_","_","e","q","_","_">>, [sig |-> 1, doc |-> 11]>>,
            <<<<"_","_","f","l","a","g","s","_","_">>, [sig |-> 0, doc |-> 4]>>,
            <<<<"_","_","f","o","r","m","a","t","_","_">>, [sig |-> 7, doc |-> 146]>>,
            <<<<"_","_","g","e","_","_">>, [sig |-> 1, doc |-> 13]>>,
            <<<<"_","_","g","e","t","a","t","t","r","i","b","u","t","e","_","_">>, [sig |-> 5, doc |-> 14]>>,
            <<<<"_","_","g","e","t","n","e","w","a","r","g","s","_","_">>, [sig |-> 6, doc |-> 0]>>,
            <<<<"_","_","g","e","t","s","t","a","t","e","_","_">>, [sig |-> 6, doc |-> 16]>>,
            <<<<"_","_","g","t","_","_">>, [sig |-> 1, doc |-> 17]>>,
            <<<<"_","_","h","a","s","h","_","_">>, [sig |-> 6, doc |-> 18]>>,
            <<<<"_","_","i","n","i","t","_","_">>, [sig |-> 8, doc |-> 19]>>,
            <<<<"_","_","i","n","i","t","_","s","u","b","c","l","a","s","s","_","_">>, [sig |-> 0, doc |-> 20]>>,
            <<<<"_","_","i","n","s","t","a","n","c","e","c","h","e","c","k","_","_">>, [sig |-> 9, doc |-> 21]>>,
            <<<<"_","_","i","t","e","m","s","i","z","e","_","_">>, [sig |-> 0, doc |-> 4]>>,
            <<<<"_","_","l","e","_","_">>, [sig |-> 1, doc |-> 23]>>,
            <<<<"_","_","l","t","_","_">>, [sig |-> 1, doc |-> 25]>>,
            <<<<"_","_","m","o","d","u","l","e","_","_">>, [sig |-> 0, doc |-> 10]>>,
            <<<<"_","_","m","r","o","_","_">>, [sig |-> 0, doc |-> 3]>>,
            <<<<"_","_","m","u","l","_","_">>, [sig |-> 1, doc |-> 27]>>,
            <<<<"_","_","n","a","m","e","_","_">>, [sig |-> 0, doc |-> 10]>>,
            <<<<"_","_","n","e","_","_">>, [sig |-> 1, doc |-> 28]>>,
            <<<<"_","_","n","e","g","_","_">>, [sig |-> 6, doc |-> 103]>>,
            <<<<"_","_","n","e","w","_","_">>, [sig |-> 3, doc |-> 29]>>,
            <<<<"_","_","o","r","_","_">>, [sig |-> 10, doc |-> 30]>>,
            <<<<"_","_","p","o","s","_","_">>, [sig |-> 6, doc |-> 104]>>,
            <<<<"_","_","p","o","w","_","_">>, [sig |-> 27, doc |-> 105]>>,
            <<<<"_","_","p","r","e","p","a","r","e","_","_">>, [sig |-> 0, doc |-> 31]>>,
            <<<<"_","_","q","u","a","l","n","a","m","e","_","_">>, [sig |-> 0, doc |-> 10]>>,
            <<<<"_","_","r","a","d","d","_","_">>, [sig |-> 1, doc |-> 106]>>,
            <<<<"_","_","r","e","d","u","c","e","_","_">>, [sig |-> 6, doc |-> 16]>>,
            <<<<"_","_","r","e","d","u","c","e","_","e","x","_","_">>, [sig |-> 11, doc |-> 16]>>,
            <<<<"_","_","r","e","p","r","_","_">>, [sig |-> 6, doc |-> 32]>>,
            <<<<"_","_","r","m","u","l","_","_">>, [sig |-> 1, doc |-> 34]>>,
            <<<<"_","_","r","o","r","_","_">>, [sig |-> 10, doc |-> 35]>>,
            <<<<"_","_","r","p","o","w","_","_">>, [sig |-> 27, doc |-> 112]>>,
            <<<<"_","_","r","s","u","b","_","_">>, [sig |-> 1, doc |-> 115]>>,
            <<<<"_","_","r","t","r","u","e","d","i","v","_","_">>, [sig |-> 1, doc |-> 116]>>,
            <<<<"_","_","s","e","t","a","t","t","r","_","_">>, [sig |-> 12, doc |-> 36]>>,
            <<<<"_","_","s","i","z","e","o","f","_","_">>, [sig |-> 6, doc |-> 138]>>,
            <<<<"_","_","s","t","r","_","_">>, [sig |-> 6, doc |-> 38]>>,
            <<<<"_","_","s","u","b","_","_">>, [sig |-> 1, doc |-> 119]>>,
            <<<<"_","_","s","u","b","c","l","a","s","s","c","h","e","c","k","_","_">>, [sig |-> 13, doc |-> 39]>>,
            <<<<"_","_","s","u","b","c","l","a","s","s","e","s","_","_">>, [sig |-> 2, doc |-> 40]>>,
            <<<<"_","_","s","u","b","c","l","a","s","s","h","o","o","k","_","_">>, [sig |-> 0, doc |-> 41]>>,
            <<<<"_","_","t","e","x","t","_","s","i","g","n","a","t","u","r","e","_","_">>, [sig |-> 0, doc |-> 10]>>,
            <<<<"_","_","t","r","u","e","d","i","v","_","_">>, [sig |-> 1, doc |-> 120]>>,
            <<<<"_","_","w","e","a","k","r","e","f","o","f","f","s","e","t","_","_">>, [sig |-> 0, doc |-> 4]>>,
            <<<<"c","o","n","j","u","g","a","t","e">>, [sig |-> 6, doc |-> 147]>>,
            <<<<"i","m","a","g">>, [sig |-> 0, doc |-> 129]>>,
            <<<<"m","r","o">>, [sig |-> 2, doc |-> 70]>>,
            <<<<"r","e","a","l">>, [sig |-> 0, doc |-> 131]>> >>)]>>,
      <<<<"<class 'list'>">>,
          [dir |-> <<<<"_","_","a","d","d","_","_">>, <<"_","_","c","l","a","s","s","_","_">>, <<"_","_","c","l","a",
                   "s","s","_","g","e","t","i","t","e","m","_","_">>, <<"_","_","c","o","n","t","a",
                   "i","n","s","_","_">>, <<"_","_","d","e","l","a","t","t","r","_","_">>, <<"_",
                   "_","d","e","l","i","t","e","m","_","_">>, <<"_","_","d","i","r","_","_">>, <<
                   "_","_","d","o","c","_","_">>, <<"_","_","e","q","_","_">>, <<"_","_","f","o",
                   "r","m","a","t","_","_">>, <<"_","_","g","e","_","_">>, <<"_","_","g","e","t",
                   "a","t","t","r","i","b","u","t","e","_","_">>, <<"_","_","g","e","t","i","t","e",
                   "m","_","_">>, <<"_","_","g","e","t","s","t","a","t","e","_","_">>, <<"_","_",
                   "g","t","_","_">>, <<"_","_","h","a","s","h","_","_">>, <<"_","_","i","a","d",
                   "d","_","_">>, <<"_","_","i","m","u","l","_","_">>, <<"_","_","i","n","i","t",
                   "_","_">>, <<"_","_","i","n","i","t","_","s","u","b","c","l","a","s","s","_","_"
                   >>, <<"_","_","i","t","e","r","_","_">>, <<"_","_","l","e","_","_">>, <<"_","_",
                   "l","e","n","_","_">>, <<"_","_","l","t","_","_">>, <<"_","_","m","u","l","_","_"
                   >>, <<"_","_","n","e","_","_">>, <<"_","_","n","e","w","_","_">>, <<"_","_","r",
                   "e","d","u","c","e","_","_">>, <<"_","_","r","e","d","u","c","e","_","e","x","_",
                   "_">>, <<"_","_","r","e","p","r","_","_">>, <<"_","_","r","e","v","e","r","s",
                   "e","d","_","_">>, <<"_","_","r","m","u","l","_","_">>, <<"_","_","s","e","t",
                   "a","t","t","r","_","_">>, <<"_","_","s","e","t","i","t","e","m","_","_">>, <<
                   "_","_","s","i","z","e","o","f","_","_">>, <<"_","_","s","t","r","_","_">>, <<
                   "_","_","s","u","b","c","l","a","s","s","h","o","o","k","_","_">>, <<"a","p","p",
                   "e","n","d">>, <<"c","l","e","a","r">>, <<"c","o","p","y">>, <<"c","o","u","n",
                   "t">>, <<"e","x","t","e","n","d">>, <<"i","n","d","e","x">>, <<"i","n","s","e",
                   "r","t">>, <<"p","o","p">>, <<"r","e","m","o","v","e">>, <<"r","e","v","e","r",
                   "s","e">>, <<"s","o","r","t">>>>,
           callable |-> {<<"_","_","a","d","d","_","_">>, <<"_","_","c","l","a","s","s","_","_">>, <<"_","_","c","l","a",
                        "s","s","_","g","e","t","i","t","e","m","_","_">>, <<"_","_","c","o","n",
                        "t","a","i","n","s","_","_">>, <<"_","_","d","e","l","a","t","t","r","_","_"
                        >>, <<"_","_","d","e","l","i","t","e","m","_","_">>, <<"_","_","d","i","r",
                        "_","_">>, <<"_","_","e","q","_","_">>, <<"_","_","f","o","r","m","a","t",
                        "_","_">>, <<"_","_","g","e","_","_">>, <<"_","_","g","e","t","a","t","t",
                        "r","i","b","u","t","e","_","_">>, <<"_","_","g","e","t","i","t","e","m",
                        "_","_">>, <<"_","_","g","e","t","s","t","a","t","e","_","_">>, <<"_","_",
                        "g","t","_","_">>, <<"_","_","i","a","d","d","_","_">>, <<"_","_","i","m",
                        "u","l","_","_">>, <<"_","_","i","n","i","t","_","_">>, <<"_","_","i","n",
                        "i","t","_","s","u","b","c","l","a","s","s","_","_">>, <<"_","_","i","t",
                        "e","r","_","_">>, <<"_","_","l","e","_","_">>, <<"_","_","l","e","n","_",
                        "_">>, <<"_","_","l","t","_","_">>, <<"_","_","m","u","l","_","_">>, <<"_",
                        "_","n","e","_","_">>, <<"_","_","n","e","w","_","_">>, <<"_","_","r","e",
                        "d","u","c","e","_","_">>, <<"_","_","r","e","d","u","c","e","_","e","x",
                        "_","_">>, <<"_","_","r","e","p","r","_","_">>, <<"_","_","r","e","v","e",
                        "r","s","e","d","_","_">>, <<"_","_","r","m","u","l","_","_">>, <<"_","_",
                        "s","e","t","a","t","t","r","_","_">>, <<"_","_","s","e","t","i","t","e",
                        "m","_","_">>, <<"_","_","s","i","z","e","o","f","_","_">>, <<"_","_","s",
                        "t","r","_","_">>, <<"_","_","s","u","b","c","l","a","s","s","h","o","o",
                        "k","_","_">>, <<"a","p","p","e","n","d">>, <<"c","l","e","a","r">>, <<"c",
                        "o","p","y">>, <<"c","o","u","n","t">>, <<"e","x","t","e","n","d">>, <<"i",
                        "n","d","e","x">>, <<"i","n","s","e","r","t">>, <<"p","o","p">>, <<"r","e",
                        "m","o","v","e">>, <<"r","e","v","e","r","s","e">>, <<"s","o","r","t">>},
           attrs |-> DictOf(<<
            <<<<"_","_","a","d","d","_","_">>, [sig |-> 1, doc |-> 1]>>,
            <<<<"_","_","b","a","s","e","_","_">>, [sig |-> 2, doc |-> 2]>>,
            <<<<"_","_","b","a","s","e","s","_","_">>, [sig |-> 0, doc |-> 3]>>,
            <<<<"_","_","b","a","s","i","c","s","i","z","e","_","_">>, [sig |-> 0, doc |-> 4]>>,
            <<<<"_","_","c","a","l","l","_","_">>, [sig |-> 3, doc |-> 5]>>,
            <<<<"_","_","c","l","a","s","s","_","_">>, [sig |-> 0, doc |-> 6]>>,
            <<<<"_","_","c","l","a","s","s","_","g","e","t","i","t","e","m","_","_">>, [sig |-> 0, doc |-> 148]>>,
            <<<<"_","_","c","o","n","t","a","i","n","s","_","_">>, [sig |-> 4, doc |-> 7]>>,
            <<<<"_","_","d","e","l","a","t","t","r","_","_">>, [sig |-> 5, doc |-> 8]>>,
            <<<<"_","_","d","e","l","i","t","e","m","_","_">>, [sig |-> 4, doc |-> 149]>>,
            <<<<"_","_","d","i","c","t","_","_">>, [sig |-> 0, doc |-> 0]>>,
            <<<<"_","_","d","i","c","t","o","f","f","s","e","t","_","_">>, [sig |-> 0, doc |-> 4]>>,
            <<<<"_","_","d","i","r","_","_">>, [sig |-> 6, doc |-> 9]>>,
            <<<<"_","_","d","o","c","_","_">>, [sig |-> 0, doc |-> 10]>>,
            <<<<"_","_","e","q","_","_">>, [sig |-> 1, doc |-> 11]>>,
            <<<<"_","_","f","l","a","g","s","_","_">>, [sig |-> 0, doc |-> 4]>>,
            <<<<"_","_","f","o","r","m","a","t","_","_">>, [sig |-> 7, doc |-> 98]>>,
            <<<<"_","_","g","e","_","_">>, [sig |-> 1, doc |-> 13]>>,
            <<<<"_","_","g","e","t","a","t","t","r","i","b","u","t","e","_","_">>, [sig |-> 5, doc |-> 14]>>,
            <<<<"_","_","g","e","t","i","t","e","m","_","_">>, [sig |-> 0, doc |-> 150]>>,
            <<<<"_","_","g","e","t","s","t","a","t","e","_","_">>, [sig |-> 6, doc |-> 16]>>,
            <<<<"_","_","g","t","_","_">>, [sig |-> 1, doc |-> 17]>>,
            <<<<"_","_","h","a","s","h","_","_">>, [sig |-> 0, doc |-> 0]>>,
            <<<<"_","_","i","a","d","d","_","_">>, [sig |-> 1, doc |-> 151]>>,
            <<<<"_","_","i","m","u","l","_","_">>, [sig |-> 1, doc |-> 152]>>,
            <<<<"_","_","i","n","i","t","_","_">>, [sig |-> 8, doc |-> 19]>>,
            <<<<"_","_","i","n","i","t","_","s","u","b","c","l","a","s","s","_","_">>, [sig |-> 0, doc |-> 20]>>,
            <<<<"_","_","i","n","s","t","a","n","c","e","c","h","e","c","k","_","_">>, [sig |-> 9, doc |-> 21]>>,
            <<<<"_","_","i","t","e","m","s","i","z","e","_","_">>, [sig |-> 0, doc |-> 4]>>,
            <<<<"_","_","i","t","e","r","_","_">>, [sig |-> 6, doc |-> 22]>>,
            <<<<"_","_","l","e","_","_">>, [sig |-> 1, doc |-> 23]>>,
            <<<<"_","_","l","e","n","_","_">>, [sig |-> 6, doc |-> 24]>>,
            <<<<"_","_","l","t","_","_">>, [sig |-> 1, doc |-> 25]>>,
            <<<<"_","_","m","o","d","u","l","e","_","_">>, [sig |-> 0, doc |-> 10]>>,
            <<<<"_","_","m","r","o","_","_">>, [sig |-> 0, doc |-> 3]>>,
            <<<<"_","_","m","u","l","_","_">>, [sig |-> 1, doc |-> 27]>>,
            <<<<"_","_","n","a","m","e","_","_">>, [sig |-> 0, doc |-> 10]>>,
            <<<<"_","_","n","e","_","_">>, [sig |-> 1, doc |-> 28]>>,
            <<<<"_","_","n","e","w","_","_">>, [sig |-> 3, doc |-> 29]>>,
            <<<<"_","_","o","r","_","_">>, [sig |-> 10, doc |-> 30]>>,
            <<<<"_","_","p","r","e","p","a","r","e","_","_">>, [sig |-> 0, doc |-> 31]>>,
            <<<<"_","_","q","u","a","l","n","a","m","e","_","_">>, [sig |-> 0, doc |-> 10]>>,
            <<<<"_","_","r","e","d","u","c","e","_","_">>, [sig |-> 6, doc |-> 16]>>,
            <<<<"_","_","r","e","d","u","c","e","_","e","x","_","_">>, [sig |-> 11, doc |-> 16]>>,
            <<<<"_","_","r","e","p","r","_","_">>, [sig |-> 6, doc |-> 32]>>,
            <<<<"_","_","r","e","v","e","r","s","e","d","_","_">>, [sig |-> 6, doc |-> 153]>>,
            <<<<"_","_","r","m","u","l","_","_">>, [sig |-> 1, doc |-> 34]>>,
            <<<<"_","_","r","o","r","_","_">>, [sig |-> 10, doc |-> 35]>>,
            <<<<"_","_","s","e","t","a","t","t","r","_","_">>, [sig |-> 12, doc |-> 36]>>,
            <<<<"_","_","s","e","t","i","t","e","m","_","_">>, [sig |-> 33, doc |-> 154]>>,
            <<<<"_","_","s","i","z","e","o","f","_","_">>, [sig |-> 6, doc |-> 155]>>,
            <<<<"_","_","s","t","r","_","_">>, [sig |-> 6, doc |-> 38]>>,
            <<<<"_","_","s","u","b","c","l","a","s","s","c","h","e","c","k","_","_">>, [sig |-> 13, doc |-> 39]>>,
            <<<<"_","_","s","u","b","c","l","a","s","s","e","s","_","_">>, [sig |-> 2, doc |-> 40]>>,
            <<<<"_","_","s","u","b","c","l","a","s","s","h","o","o","k","_","_">>, [sig |-> 0, doc |-> 41]>>,
            <<<<"_","_","t","e","x","t","_","s","i","g","n","a","t","u","r","e","_","_">>, [sig |-> 0, doc |-> 10]>>,
            <<<<"_","_","w","e","a","k","r","e","f","o","f","f","s","e","t","_","_">>, [sig |-> 0, doc |-> 4]>>,
            <<<<"a","p","p","e","n","d">>, [sig |-> 34, doc |-> 156]>>,
            <<<<"c","l","e","a","r">>, [sig |-> 6, doc |-> 157]>>,
            <<<<"c","o","p","y">>, [sig |-> 6, doc |-> 158]>>,
            <<<<"c","o","u","n","t">>, [sig |-> 1, doc |-> 159]>>,
            <<<<"e","x","t","e","n","d">>, [sig |-> 17, doc |-> 160]>>,
            <<<<"i","n","d","e","x">>, [sig |-> 35, doc |-> 161]>>,
            <<<<"i","n","s","e","r","t">>, [sig |-> 36, doc |-> 162]>>,
            <<<<"m","r","o">>, [sig |-> 2, doc |-> 70]>>,
            <<<<"p","o","p">>, [sig |-> 37, doc |-> 163]>>,
            <<<<"r","e","m","o","v","e">>, [sig |-> 1, doc |-> 164]>>,
            <<<<"r","e","v","e","r","s","e">>, [sig |-> 6, doc |-> 165]>>,
            <<<<"s","o","r","t">>, [sig |-> 38, doc |-> 166]>> >>)]>>,
      <<<<"<class 'tuple'>">>,
          [dir |-> <<<<"_","_","a","d","d","_","_">>, <<"_","_","c","l","a","s","s","_","_">>, <<"_","_","c","l","a",
                   "s","s","_","g","e","t","i","t","e","m","_","_">>, <<"_","_","c","o","n","t","a",
                   "i","n","s","_","_">>, <<"_","_","d","e","l","a","t","t","r","_","_">>, <<"_",
                   "_","d","i","r","_","_">>, <<"_","_","d","o","c","_","_">>, <<"_","_","e","q",
                   "_","_">>, <<"_","_","f","o","r","m","a","t","_","_">>, <<"_","_","g","e","_","_"
                   >>, <<"_","_","g","e","t","a","t","t","r","i","b","u","t","e","_","_">>, <<"_",
                   "_","g","e","t","i","t","e","m","_","_">>, <<"_","_","g","e","t","n","e","w","a",
                   "r","g","s","_","_">>, <<"_","_","g","e","t","s","t","a","t","e","_","_">>, <<
                   "_","_","g","t","_","_">>, <<"_","_","h","a","s","h","_","_">>, <<"_","_","i",
                   "n","i","t","_","_">>, <<"_","_","i","n","i","t","_","s","u","b","c","l","a","s",
                   "s","_","_">>, <<"_","_","i","t","e","r","_","_">>, <<"_","_","l","e","_","_">>, 
                   <<"_","_","l","e","n","_","_">>, <<"_","_","l","t","_","_">>, <<"_","_","m","u",
                   "l","_","_">>, <<"_","_","n","e","_","_">>, <<"_","_","n","e","w","_","_">>, <<
                   "_","_","r","e","d","u","c","e","_","_">>, <<"_","_","r","e","d","u","c","e","_",
                   "e","x","_","_">>, <<"_","_","r","e","p","r","_","_">>, <<"_","_","r","m","u",
                   "l","_","_">>, <<"_","_","s","e","t","a","t","t","r","_","_">>, <<"_","_","s",
                   "i","z","e","o","f","_","_">>, <<"_","_","s","t","r","_","_">>, <<"_","_","s",
                   "u","b","c","l","a","s","s","h","o","o","k","_","_">>, <<"c","o","u","n","t">>, 
                   <<"i","n","d","e","x">>>>,
           callable |-> {<<"_","_","a","d","d","_","_">>, <<"_","_","c","l","a","s","s","_","_">>, <<"_","_","c","l","a",
                        "s","s","_","g","e","t","i","t","e","m","_","_">>, <<"_","_","c","o","n",
                        "t","a","i","n","s","_","_">>, <<"_","_","d","e","l","a","t","t","r","_","_"
                        >>, <<"_","_","d","i","r","_","_">>, <<"_","_","e","q","_","_">>, <<"_","_",
                        "f","o","r","m","a","t","_","_">>, <<"_","_","g","e","_","_">>, <<"_","_",
                        "g","e","t","a","t","t","r","i","b","u","t","e","_","_">>, <<"_","_","g",
                        "e","t","i","t","e","m","_","_">>, <<"_","_","g","e","t","n","e","w","a",
                        "r","g","s","_","_">>, <<"_","_","g","e","t","s","t","a","t","e","_","_">>, 
                        <<"_","_","g","t","_","_">>, <<"_","_","h","a","s","h","_","_">>, <<"_","_",
                        "i","n","i","t","_","_">>, <<"_","_","i","n","i","t","_","s","u","b","c",
                        "l","a","s","s","_","_">>, <<"_","_","i","t","e","r","_","_">>, <<"_","_",
                        "l","e","_","_">>, <<"_","_","l","e","n","_","_">>, <<"_","_","l","t","_",
                        "_">>, <<"_","_","m","u","l","_","_">>, <<"_","_","n","e","_","_">>, <<"_",
                        "_","n","e","w","_","_">>, <<"_","_","r","e","d","u","c","e","_","_">>, <<
                        "_","_","r","e","d","u","c","e","_","e","x","_","_">>, <<"_","_","r","e",
                        "p","r","_","_">>, <<"_","_","r","m","u","l","_","_">>, <<"_","_","s","e",
                        "t","a","t","t","r","_","_">>, <<"_","_","s","i","z","e","o","f","_","_">>, 
                        <<"_","_","s","t","r","_","_">>, <<"_","_","s","u","b","c","l","a","s","s",
                        "h","o","o","k","_","_">>, <<"c","o","u","n","t">>, <<"i","n","d","e","x">>},
           attrs |-> DictOf(<<
            <<<<"_","_","a","d","d","_","_">>, [sig |-> 1, doc |-> 1]>>,
            <<<<"_","_","b","a","s","e","_","_">>, [sig |-> 2, doc |-> 2]>>,
            <<<<"_","_","b","a","s","e","s","_","_">>, [sig |-> 0, doc |-> 3]>>,
            <<<<"_","_","b","a","s","i","c","s","i","z","e","_","_">>, [sig |-> 0, doc |-> 4]>>,
            <<<<"_","_","c","a","l","l","_","_">>, [sig |-> 3, doc |-> 5]>>,
            <<<<"_","_","c","l","a","s","s","_","_">>, [sig |-> 0, doc |-> 6]>>,
            <<<<"_","_","c","l","a","s","s","_","g","e","t","i","t","e","m","_","_">>, [sig |-> 0, doc |-> 148]>>,
            <<<<"_","_","c","o","n","t","a","i","n","s","_","_">>, [sig |-> 4, doc |-> 7]>>,
            <<<<"_","_","d","e","l","a","t","t","r","_","_">>, [sig |-> 5, doc |-> 8]>>,
            <<<<"_","_","d","i","c","t","_","_">>, [sig |-> 0, doc |-> 0]>>,
            <<<<"_","_","d","i","c","t","o","f","f","s","e","t","_","_">>, [sig |-> 0, doc |-> 4]>>,
            <<<<"_","_","d","i","r","_","_">>, [sig |-> 6, doc |-> 9]>>,
            <<<<"_","_","d","o","c","_","_">>, [sig |-> 0, doc |-> 10]>>,
            <<<<"_","_","e","q","_","_">>, [sig |-> 1, doc |-> 11]>>,
            <<<<"_","_","f","l","a","g","s","_","_">>, [sig |-> 0, doc |-> 4]>>,
            <<<<"_","_","f","o","r","m","a","t","_","_">>, [sig |-> 7, doc |-> 98]>>,
            <<<<"_","_","g","e","_","_">>, [sig |-> 1, doc |-> 13]>>,
            <<<<"_","_","g","e","t","a","t","t","r","i","b","u","t","e","_","_">>, [sig |-> 5, doc |-> 14]>>,
            <<<<"_","_","g","e","t","i","t","e","m","_","_">>, [sig |-> 4, doc |-> 15]>>,
            <<<<"_","_","g","e","t","n","e","w","a","r","g","s","_","_">>, [sig |-> 6, doc |-> 0]>>,
            <<<<"_","_","g","e","t","s","t","a","t","e","_","_">>, [sig |-> 6, doc |-> 16]>>,
            <<<<"_","_","g","t","_","_">>, [sig |-> 1, doc |-> 17]>>,
            <<<<"_","_","h","a","s","h","_","_">>, [sig |-> 6, doc |-> 18]>>,
            <<<<"_","_","i","n","i","t","_","_">>, [sig |-> 8, doc |-> 19]>>,
            <<<<"_","_","i","n","i","t","_","s","u","b","c","l","a","s","s","_","_">>, [sig |-> 0, doc |-> 20]>>,
            <<<<"_","_","i","n","s","t","a","n","c","e","c","h","e","c","k","_","_">>, [sig |-> 9, doc |-> 21]>>,
            <<<<"_","_","i","t","e","m","s","i","z","e","_","_">>, [sig |-> 0, doc |-> 4]>>,
            <<<<"_","_","i","t","e","r","_","_">>, [sig |-> 6, doc |-> 22]>>,
            <<<<"_","_","l","e","_","_">>, [sig |-> 1, doc |-> 23]>>,
            <<<<"_","_","l","e","n","_","_">>, [sig |-> 6, doc |-> 24]>>,
            <<<<"_","_","l","t","_","_">>, [sig |-> 1, doc |-> 25]>>,
            <<<<"_","_","m","o","d","u","l","e","_","_">>, [sig |-> 0, doc |-> 10]>>,
            <<<<"_","_","m","r","o","_","_">>, [sig |-> 0, doc |-> 3]>>,
            <<<<"_","_","m","u","l","_","_">>, [sig |-> 1, doc |-> 27]>>,
            <<<<"_","_","n","a","m","e","_","_">>, [sig |-> 0, doc |-> 10]>>,
            <<<<"_","_","n","e","_","_">>, [sig |-> 1, doc |-> 28]>>,
            <<<<"_","_","n","e","w","_","_">>, [sig |-> 3, doc |-> 29]>>,
            <<<<"_","_","o","r","_","_">>, [sig |-> 10, doc |-> 30]>>,
            <<<<"_","_","p","r","e","p","a","r","e","_","_">>, [sig |-> 0, doc |-> 31]>>,
            <<<<"_","_","q","u","a","l","n","a","m","e","_","_">>, [sig |-> 0, doc |-> 10]>>,
            <<<<"_","_","r","e","d","u","c","e","_","_">>, [sig |-> 6, doc |-> 16]>>,
            <<<<"_","_","r","e","d","u","c","e","_","e","x","_","_">>, [sig |-> 11, doc |-> 16]>>,
            <<<<"_","_","r","e","p","r","_","_">>, [sig |-> 6, doc |-> 32]>>,
            <<<<"_","_","r","m","u","l","_","_">>, [sig |-> 1, doc |-> 34]>>,
            <<<<"_","_","r","o","r","_","_">>, [sig |-> 10, doc |-> 35]>>,
            <<<<"_","_","s","e","t","a","t","t","r","_","_">>, [sig |-> 12, doc |-> 36]>>,
            <<<<"_","_","s","i","z","e","o","f","_","_">>, [sig |-> 6, doc |-> 138]>>,
            <<<<"_","_","s","t","r","_","_">>, [sig |-> 6, doc |-> 38]>>,
            <<<<"_","_","s","u","b","c","l","a","s","s","c","h","e","c","k","_","_">>, [sig |-> 13, doc |-> 39]>>,
            <<<<"_","_","s","u","b","c","l","a","s","s","e","s","_","_">>, [sig |-> 2, doc |-> 40]>>,
            <<<<"_","_","s","u","b","c","l","a","s","s","h","o","o","k","_","_">>, [sig |-> 0, doc |-> 41]>>,
            <<<<"_","_","t","e","x","t","_","s","i","g","n","a","t","u","r","e","_","_">>, [sig |-> 0, doc |-> 10]>>,
            <<<<"_","_","w","e","a","k","r","e","f","o","f","f","s","e","t","_","_">>, [sig |-> 0, doc |-> 4]>>,
            <<<<"c","o","u","n","t">>, [sig |-> 1, doc |-> 159]>>,
            <<<<"i","n","d","e","x">>, [sig |-> 35, doc |-> 161]>>,
            <<<<"m","r","o">>, [sig |-> 2, doc |-> 70]>> >>)]>>,
      <<<<"<class 'dict'>">>,
          [dir |-> <<<<"_","_","c","l","a","s","s","_","_">>, <<"_","_","c","l","a","s","s","_","g","e","t","i","t",
                   "e","m","_","_">>, <<"_","_","c","o","n","t","a","i","n","s","_","_">>, <<"_",
                   "_","d","e","l","a","t","t","r","_","_">>, <<"_","_","d","e","l","i","t","e","m",
                   "_","_">>, <<"_","_","d","i","r","_","_">>, <<"_","_","d","o","c","_","_">>, <<
                   "_","_","e","q","_","_">>, <<"_","_","f","o","r","m","a","t","_","_">>, <<"_",
                   "_","g","e","_","_">>, <<"_","_","g","e","t","a","t","t","r","i","b","u","t","e",
                   "_","_">>, <<"_","_","g","e","t","i","t","e","m","_","_">>, <<"_","_","g","e",
                   "t","s","t","a","t","e","_","_">>, <<"_","_","g","t","_","_">>, <<"_","_","h",
                   "a","s","h","_","_">>, <<"_","_","i","n","i","t","_","_">>, <<"_","_","i","n",
                   "i","t","_","s","u","b","c","l","a","s","s","_","_">>, <<"_","_","i","o","r","_",
                   "_">>, <<"_","_","i","t","e","r","_","_">>, <<"_","_","l","e","_","_">>, <<"_",
                   "_","l","e","n","_","_">>, <<"_","_","l","t","_","_">>, <<"_","_","n","e","_","_"
                   >>, <<"_","_","n","e","w","_","_">>, <<"_","_","o","r","_","_">>, <<"_","_","r",
                   "e","d","u","c","e","_","_">>, <<"_","_","r","e","d","u","c","e","_","e","x","_",
                   "_">>, <<"_","_","r","e","p","r","_","_">>, <<"_","_","r","e","v","e","r","s",
                   "e","d","_","_">>, <<"_","_","r","o","r","_","_">>, <<"_","_","s","e","t","a",
                   "t","t","r","_","_">>, <<"_","_","s","e","t","i","t","e","m","_","_">>, <<"_",
                   "_","s","i","z","e","o","f","_","_">>, <<"_","_","s","t","r","_","_">>, <<"_",
                   "_","s","u","b","c","l","a","s","s","h","o","o","k","_","_">>, <<"c","l","e","a",
                   "r">>, <<"c","o","p","y">>, <<"f","r","o","m","k","e","y","s">>, <<"g","e","t">>
                   , <<"i","t","e","m","s">>, <<"k","e","y","s">>, <<"p","o","p">>, <<"p","o","p",
                   "i","t","e","m">>, <<"s","e","t","d","e","f","a","u","l","t">>, <<"u","p","d",
                   "a","t","e">>, <<"v","a","l","u","e","s">>>>,
           callable |-> {<<"_","_","c","l","a","s","s","_","_">>, <<"_","_","c","l","a","s","s","_","g","e","t","i","t","e",
                        "m","_","_">>, <<"_","_","c","o","n","t","a","i","n","s","_","_">>, <<"_",
                        "_","d","e","l","a","t","t","r","_","_">>, <<"_","_","d","e","l","i","t",
                        "e","m","_","_">>, <<"_","_","d","i","r","_","_">>, <<"_","_","e","q","_",
                        "_">>, <<"_","_","f","o","r","m","a","t","_","_">>, <<"_","_","g","e","_",
                        "_">>, <<"_","_","g","e","t","a","t","t","r","i","b","u","t","e","_","_">>, 
                        <<"_","_","g","e","t","i","t","e","m","_","_">>, <<"_","_","g","e","t","s",
                        "t","a","t","e","_","_">>, <<"_","_","g","t","_","_">>, <<"_","_","i","n",
                        "i","t","_","_">>, <<"_","_","i","n","i","t","_","s","u","b","c","l","a",
                        "s","s","_","_">>, <<"_","_","i","o","r","_","_">>, <<"_","_","i","t","e",
                        "r","_","_">>, <<"_","_","l","e","_","_">>, <<"_","_","l","e","n","_","_">>
                        , <<"_","_","l","t","_","_">>, <<"_","_","n","e","_","_">>, <<"_","_","n",
                        "e","w","_","_">>, <<"_","_","o","r","_","_">>, <<"_","_","r","e","d","u",
                        "c","e","_","_">>, <<"_","_","r","e","d","u","c","e","_","e","x","_","_">>, 
                        <<"_","_","r","e","p","r","_","_">>, <<"_","_","r","e","v","e","r","s","e",
                        "d","_","_">>, <<"_","_","r","o","r","_","_">>, <<"_","_","s","e","t","a",
                        "t","t","r","_","_">>, <<"_","_","s","e","t","i","t","e","m","_","_">>, <<
                        "_","_","s","i","z","e","o","f","_","_">>, <<"_","_","s","t","r","_","_">>, 
                        <<"_","_","s","u","b","c","l","a","s","s","h","o","o","k","_","_">>, <<"c",
                        "l","e","a","r">>, <<"c","o","p","y">>, <<"f","r","o","m","k","e","y","s">>
                        , <<"g","e","t">>, <<"i","t","e","m","s">>, <<"k","e","y","s">>, <<"p","o",
                        "p">>, <<"p","o","p","i","t","e","m">>, <<"s","e","t","d","e","f","a","u",
                        "l","t">>, <<"u","p","d","a","t","e">>, <<"v","a","l","u","e","s">>},
           attrs |-> DictOf(<<
            <<<<"_","_","b","a","s","e","_","_">>, [sig |-> 2, doc |-> 2]>>,
            <<<<"_","_","b","a","s","e","s","_","_">>, [sig |-> 0, doc |-> 3]>>,
            <<<<"_","_","b","a","s","i","c","s","i","z","e","_","_">>, [sig |-> 0, doc |-> 4]>>,
            <<<<"_","_","c","a","l","l","_","_">>, [sig |-> 3, doc |-> 5]>>,
            <<<<"_","_","c","l","a","s","s","_","_">>, [sig |-> 0, doc |-> 6]>>,
            <<<<"_","_","c","l","a","s","s","_","g","e","t","i","t","e","m","_","_">>, [sig |-> 0, doc |-> 148]>>,
            <<<<"_","_","c","o","n","t","a","i","n","s","_","_">>, [sig |-> 4, doc |-> 167]>>,
            <<<<"_","_","d","e","l","a","t","t","r","_","_">>, [sig |-> 5, doc |-> 8]>>,
            <<<<"_","_","d","e","l","i","t","e","m","_","_">>, [sig |-> 4, doc |-> 149]>>,
            <<<<"_","_","d","i","c","t","_","_">>, [sig |-> 0, doc |-> 0]>>,
            <<<<"_","_","d","i","c","t","o","f","f","s","e","t","_","_">>, [sig |-> 0, doc |-> 4]>>,
            <<<<"_","_","d","i","r","_","_">>, [sig |-> 6, doc |-> 9]>>,
            <<<<"_","_","d","o","c","_","_">>, [sig |-> 0, doc |-> 10]>>,
            <<<<"_","_","e","q","_","_">>, [sig |-> 1, doc |-> 11]>>,
            <<<<"_","_","f","l","a","g","s","_","_">>, [sig |-> 0, doc |-> 4]>>,
            <<<<"_","_","f","o","r","m","a","t","_","_">>, [sig |-> 7, doc |-> 98]>>,
            <<<<"_","_","g","e","_","_">>, [sig |-> 1, doc |-> 13]>>,
            <<<<"_","_","g","e","t","a","t","t","r","i","b","u","t","e","_","_">>, [sig |-> 5, doc |-> 14]>>,
            <<<<"_","_","g","e","t","i","t","e","m","_","_">>, [sig |-> 0, doc |-> 150]>>,
            <<<<"_","_","g","e","t","s","t","a","t","e","_","_">>, [sig |-> 6, doc |-> 16]>>,
            <<<<"_","_","g","t","_","_">>, [sig |-> 1, doc |-> 17]>>,
            <<<<"_","_","h","a","s","h","_","_">>, [sig |-> 0, doc |-> 0]>>,
            <<<<"_","_","i","n","i","t","_","_">>, [sig |-> 8, doc |-> 19]>>,
            <<<<"_","_","i","n","i","t","_","s","u","b","c","l","a","s","s","_","_">>, [sig |-> 0, doc |-> 20]>>,
            <<<<"_","_","i","n","s","t","a","n","c","e","c","h","e","c","k","_","_">>, [sig |-> 9, doc |-> 21]>>,
            <<<<"_","_","i","o","r","_","_">>, [sig |-> 1, doc |-> 168]>>,
            <<<<"_","_","i","t","e","m","s","i","z","e","_","_">>, [sig |-> 0, doc |-> 4]>>,
            <<<<"_","_","i","t","e","r","_","_">>, [sig |-> 6, doc |-> 22]>>,
            <<<<"_","_","l","e","_","_">>, [sig |-> 1, doc |-> 23]>>,
            <<<<"_","_","l","e","n","_","_">>, [sig |-> 6, doc |-> 24]>>,
            <<<<"_","_","l","t","_","_">>, [sig |-> 1, doc |-> 25]>>,
            <<<<"_","_","m","o","d","u","l","e","_","_">>, [sig |-> 0, doc |-> 10]>>,
            <<<<"_","_","m","r","o","_","_">>, [sig |-> 0, doc |-> 3]>>,
            <<<<"_","_","n","a","m","e","_","_">>, [sig |-> 0, doc |-> 10]>>,
            <<<<"_","_","n","e","_","_">>, [sig |-> 1, doc |-> 28]>>,
            <<<<"_","_","n","e","w","_","_">>, [sig |-> 3, doc |-> 29]>>,
            <<<<"_","_","o","r","_","_">>, [sig |-> 1, doc |-> 30]>>,
            <<<<"_","_","p","r","e","p","a","r","e","_","_">>, [sig |-> 0, doc |-> 31]>>,
            <<<<"_","_","q","u","a","l","n","a","m","e","_","_">>, [sig |-> 0, doc |-> 10]>>,
            <<<<"_","_","r","e","d","u","c","e","_","_">>, [sig |-> 6, doc |-> 16]>>,
            <<<<"_","_","r","e","d","u","c","e","_","e","x","_","_">>, [sig |-> 11, doc |-> 16]>>,
            <<<<"_","_","r","e","p","r","_","_">>, [sig |-> 6, doc |-> 32]>>,
            <<<<"_","_","r","e","v","e","r","s","e","d","_","_">>, [sig |-> 6, doc |-> 169]>>,
            <<<<"_","_","r","o","r","_","_">>, [sig |-> 1, doc |-> 35]>>,
            <<<<"_","_","s","e","t","a","t","t","r","_","_">>, [sig |-> 12, doc |-> 36]>>,
            <<<<"_","_","s","e","t","i","t","e","m","_","_">>, [sig |-> 33, doc |-> 154]>>,
            <<<<"_","_","s","i","z","e","o","f","_","_">>, [sig |-> 0, doc |-> 170]>>,
            <<<<"_","_","s","t","r","_","_">>, [sig |-> 6, doc |-> 38]>>,
            <<<<"_","_","s","u","b","c","l","a","s","s","c","h","e","c","k","_","_">>, [sig |-> 13, doc |-> 39]>>,
            <<<<"_","_","s","u","b","c","l","a","s","s","e","s","_","_">>, [sig |-> 2, doc |-> 40]>>,
            <<<<"_","_","s","u","b","c","l","a","s","s","h","o","o","k","_","_">>, [sig |-> 0, doc |-> 41]>>,
            <<<<"_","_","t","e","x","t","_","s","i","g","n","a","t","u","r","e","_","_">>, [sig |-> 0, doc |-> 0]>>,
            <<<<"_","_","w","e","a","k","r","e","f","o","f","f","s","e","t","_","_">>, [sig |-> 0, doc |-> 4]>>,
            <<<<"c","l","e","a","r">>, [sig |-> 0, doc |-> 171]>>,
            <<<<"c","o","p","y">>, [sig |-> 0, doc |-> 172]>>,
            <<<<"f","r","o","m","k","e","y","s">>, [sig |-> 39, doc |-> 173]>>,
            <<<<"g","e","t">>, [sig |-> 40, doc |-> 174]>>,
            <<<<"i","t","e","m","s">>, [sig |-> 0, doc |-> 175]>>,
            <<<<"k","e","y","s">>, [sig |-> 0, doc |-> 176]>>,
            <<<<"m","r","o">>, [sig |-> 2, doc |-> 70]>>,
            <<<<"p","o","p">>, [sig |-> 0, doc |-> 177]>>,
            <<<<"p","o","p","i","t","e","m">>, [sig |-> 6, doc |-> 178]>>,
            <<<<"s","e","t","d","e","f","a","u","l","t">>, [sig |-> 40, doc |-> 179]>>,
            <<<<"u","p","d","a","t","e">>, [sig |-> 0, doc |-> 180]>>,
            <<<<"v","a","l","u","e","s">>, [sig |-> 0, doc |-> 181]>> >>)]>>,
      <<<<"<class 'set'>">>,
          [dir |-> <<<<"_","_","a","n","d","_","_">>, <<"_","_","c","l","a","s","s","_","_">>, <<"_","_","c","l","a",
                   "s","s","_","g","e","t","i","t","e","m","_","_">>, <<"_","_","c","o","n","t","a",
                   "i","n","s","_","_">>, <<"_","_","d","e","l","a","t","t","r","_","_">>, <<"_",
                   "_","d","i","r","_","_">>, <<"_","_","d","o","c","_","_">>, <<"_","_","e","q",
                   "_","_">>, <<"_","_","f","o","r","m","a","t","_","_">>, <<"_","_","g","e","_","_"
                   >>, <<"_","_","g","e","t","a","t","t","r","i","b","u","t","e","_","_">>, <<"_",
                   "_","g","e","t","s","t","a","t","e","_","_">>, <<"_","_","g","t","_","_">>, <<
                   "_","_","h","a","s","h","_","_">>, <<"_","_","i","a","n","d","_","_">>, <<"_",
                   "_","i","n","i","t","_","_">>, <<"_","_","i","n","i","t","_","s","u","b","c","l",
                   "a","s","s","_","_">>, <<"_","_","i","o","r","_","_">>, <<"_","_","i","s","u",
                   "b","_","_">>, <<"_","_","i","t","e","r","_","_">>, <<"_","_","i","x","o","r",
                   "_","_">>, <<"_","_","l","e","_","_">>, <<"_","_","l","e","n","_","_">>, <<"_",
                   "_","l","t","_","_">>, <<"_","_","n","e","_","_">>, <<"_","_","n","e","w","_","_"
                   >>, <<"_","_","o","r","_","_">>, <<"_","_","r","a","n","d","_","_">>, <<"_","_",
                   "r","e","d","u","c","e","_","_">>, <<"_","_","r","e","d","u","c","e","_","e","x",
                   "_","_">>, <<"_","_","r","e","p","r","_","_">>, <<"_","_","r","o","r","_","_">>, 
                   <<"_","_","r","s","u","b","_","_">>, <<"_","_","r","x","o","r","_","_">>, <<"_",
                   "_","s","e","t","a","t","t","r","_","_">>, <<"_","_","s","i","z","e","o","f","_",
                   "_">>, <<"_","_","s","t","r","_","_">>, <<"_","_","s","u","b","_","_">>, <<"_",
                   "_","s","u","b","c","l","a","s","s","h","o","o","k","_","_">>, <<"_","_","x","o",
                   "r","_","_">>, <<"a","d","d">>, <<"c","l","e","a","r">>, <<"c","o","p","y">>, <<
                   "d","i","f","f","e","r","e","n","c","e">>, <<"d","i","f","f","e","r","e","n","c",
                   "e","_","u","p","d","a","t","e">>, <<"d","i","s","c","a","r","d">>, <<"i","n",
                   "t","e","r","s","e","c","t","i","o","n">>, <<"i","n","t","e","r","s","e","c","t",
                   "i","o","n","_","u","p","d","a","t","e">>, <<"i","s","d","i","s","j","o","i","n",
                   "t">>, <<"i","s","s","u","b","s","e","t">>, <<"i","s","s","u","p","e","r","s",
                   "e","t">>, <<"p","o","p">>, <<"r","e","m","o","v","e">>, <<"s","y","m","m","e",
                   "t","r","i","c","_","d","i","f","f","e","r","e","n","c","e">>, <<"s","y","m","m",
                   "e","t","r","i","c","_","d","i","f","f","e","r","e","n","c","e","_","u","p","d",
                   "a","t","e">>, <<"u","n","i","o","n">>, <<"u","p","d","a","t","e">>>>,
           callable |-> {<<"_","_","a","n","d","_","_">>, <<"_","_","c","l","a","s","s","_","_">>, <<"_","_","c","l","a",
                        "s","s","_","g","e","t","i","t","e","m","_","_">>, <<"_","_","c","o","n",
                        "t","a","i","n","s","_","_">>, <<"_","_","d","e","l","a","t","t","r","_","_"
                        >>, <<"_","_","d","i","r","_","_">>, <<"_","_","e","q","_","_">>, <<"_","_",
                        "f","o","r","m","a","t","_","_">>, <<"_","_","g","e","_","_">>, <<"_","_",
                        "g","e","t","a","t","t","r","i","b","u","t","e","_","_">>, <<"_","_","g",
                        "e","t","s","t","a","t","e","_","_">>, <<"_","_","g","t","_","_">>, <<"_",
                        "_","i","a","n","d","_","_">>, <<"_","_","i","n","i","t","_","_">>, <<"_",
                        "_","i","n","i","t","_","s","u","b","c","l","a","s","s","_","_">>, <<"_",
                        "_","i","o","r","_","_">>, <<"_","_","i","s","u","b","_","_">>, <<"_","_",
                        "i","t","e","r","_","_">>, <<"_","_","i","x","o","r","_","_">>, <<"_","_",
                        "l","e","_","_">>, <<"_","_","l","e","n","_","_">>, <<"_","_","l","t","_",
                        "_">>, <<"_","_","n","e","_","_">>, <<"_","_","n","e","w","_","_">>, <<"_",
                        "_","o","r","_","_">>, <<"_","_","r","a","n","d","_","_">>, <<"_","_","r",
                        "e","d","u","c","e","_","_">>, <<"_","_","r","e","d","u","c","e","_","e",
                        "x","_","_">>, <<"_","_","r","e","p","r","_","_">>, <<"_","_","r","o","r",
                        "_","_">>, <<"_","_","r","s","u","b","_","_">>, <<"_","_","r","x","o","r",
                        "_","_">>, <<"_","_","s","e","t","a","t","t","r","_","_">>, <<"_","_","s",
                        "i","z","e","o","f","_","_">>, <<"_","_","s","t","r","_","_">>, <<"_","_",
                        "s","u","b","_","_">>, <<"_","_","s","u","b","c","l","a","s","s","h","o",
                        "o","k","_","_">>, <<"_","_","x","o","r","_","_">>, <<"a","d","d">>, <<"c",
                        "l","e","a","r">>, <<"c","o","p","y">>, <<"d","i","f","f","e","r","e","n",
                        "c","e">>, <<"d","i","f","f","e","r","e","n","c","e","_","u","p","d","a",
                        "t","e">>, <<"d","i","s","c","a","r","d">>, <<"i","n","t","e","r","s","e",
                        "c","t","i","o","n">>, <<"i","n","t","e","r","s","e","c","t","i","o","n",
                        "_","u","p","d","a","t","e">>, <<"i","s","d","i","s","j","o","i","n","t">>, 
                        <<"i","s","s","u","b","s","e","t">>, <<"i","s","s","u","p","e","r","s","e",
                        "t">>, <<"p","o","p">>, <<"r","e","m","o","v","e">>, <<"s","y","m","m","e",
                        "t","r","i","c","_","d","i","f","f","e","r","e","n","c","e">>, <<"s","y",
                        "m","m","e","t","r","i","c","_","d","i","f","f","e","r","e","n","c","e","_",
                        "u","p","d","a","t","e">>, <<"u","n","i","o","n">>, <<"u","p","d","a","t",
                        "e">>},
           attrs |-> DictOf(<<
            <<<<"_","_","a","n","d","_","_">>, [sig |-> 1, doc |-> 91]>>,
            <<<<"_","_","b","a","s","e","_","_">>, [sig |-> 2, doc |-> 2]>>,
            <<<<"_","_","b","a","s","e","s","_","_">>, [sig |-> 0, doc |-> 3]>>,
            <<<<"_","_","b","a","s","i","c","s","i","z","e","_","_">>, [sig |-> 0, doc |-> 4]>>,
            <<<<"_","_","c","a","l","l","_","_">>, [sig |-> 3, doc |-> 5]>>,
            <<<<"_","_","c","l","a","s","s","_","_">>, [sig |-> 0, doc |-> 6]>>,
            <<<<"_","_","c","l","a","s","s","_","g","e","t","i","t","e","m","_","_">>, [sig |-> 0, doc |-> 148]>>,
            <<<<"_","_","c","o","n","t","a","i","n","s","_","_">>, [sig |-> 0, doc |-> 182]>>,
            <<<<"_","_","d","e","l","a","t","t","r","_","_">>, [sig |-> 5, doc |-> 8]>>,
            <<<<"_","_","d","i","c","t","_","_">>, [sig |-> 0, doc |-> 0]>>,
            <<<<"_","_","d","i","c","t","o","f","f","s","e","t","_","_">>, [sig |-> 0, doc |-> 4]>>,
            <<<<"_","_","d","i","r","_","_">>, [sig |-> 6, doc |-> 9]>>,
            <<<<"_","_","d","o","c","_","_">>, [sig |-> 0, doc |-> 10]>>,
            <<<<"_","_","e","q","_","_">>, [sig |-> 1, doc |-> 11]>>,
            <<<<"_","_","f","l","a","g","s","_","_">>, [sig |-> 0, doc |-> 4]>>,
            <<<<"_","_","f","o","r","m","a","t","_","_">>, [sig |-> 7, doc |-> 98]>>,
            <<<<"_","_","g","e","_","_">>, [sig |-> 1, doc |-> 13]>>,
            <<<<"_","_","g","e","t","a","t","t","r","i","b","u","t","e","_","_">>, [sig |-> 5, doc |-> 14]>>,
            <<<<"_","_","g","e","t","s","t","a","t","e","_","_">>, [sig |-> 6, doc |-> 16]>>,
            <<<<"_","_","g","t","_","_">>, [sig |-> 1, doc |-> 17]>>,
            <<<<"_","_","h","a","s","h","_","_">>, [sig |-> 0, doc |-> 0]>>,
            <<<<"_","_","i","a","n","d","_","_">>, [sig |-> 1, doc |-> 183]>>,
            <<<<"_","_","i","n","i","t","_","_">>, [sig |-> 8, doc |-> 19]>>,
            <<<<"_","_","i","n","i","t","_","s","u","b","c","l","a","s","s","_","_">>, [sig |-> 0, doc |-> 20]>>,
            <<<<"_","_","i","n","s","t","a","n","c","e","c","h","e","c","k","_","_">>, [sig |-> 9, doc |-> 21]>>,
            <<<<"_","_","i","o","r","_","_">>, [sig |-> 1, doc |-> 168]>>,
            <<<<"_","_","i","s","u","b","_","_">>, [sig |-> 1, doc |-> 184]>>,
            <<<<"_","_","i","t","e","m","s","i","z","e","_","_">>, [sig |-> 0, doc |-> 4]>>,
            <<<<"_","_","i","t","e","r","_","_">>, [sig |-> 6, doc |-> 22]>>,
            <<<<"_","_","i","x","o","r","_","_">>, [sig |-> 1, doc |-> 185]>>,
            <<<<"_","_","l","e","_","_">>, [sig |-> 1, doc |-> 23]>>,
            <<<<"_","_","l","e","n","_","_">>, [sig |-> 6, doc |-> 24]>>,
            <<<<"_","_","l","t","_","_">>, [sig |-> 1, doc |-> 25]>>,
            <<<<"_","_","m","o","d","u","l","e","_","_">>, [sig |-> 0, doc |-> 10]>>,
            <<<<"_","_","m","r","o","_","_">>, [sig |-> 0, doc |-> 3]>>,
            <<<<"_","_","n","a","m","e","_","_">>, [sig |-> 0, doc |-> 10]>>,
            <<<<"_","_","n","e","_","_">>, [sig |-> 1, doc |-> 28]>>,
            <<<<"_","_","n","e","w","_","_">>, [sig |-> 3, doc |-> 29]>>,
            <<<<"_","_","o","r","_","_">>, [sig |-> 1, doc |-> 30]>>,
            <<<<"_","_","p","r","e","p","a","r","e","_","_">>, [sig |-> 0, doc |-> 31]>>,
            <<<<"_","_","q","u","a","l","n","a","m","e","_","_">>, [sig |-> 0, doc |-> 10]>>,
            <<<<"_","_","r","a","n","d","_","_">>, [sig |-> 1, doc |-> 107]>>,
            <<<<"_","_","r","e","d","u","c","e","_","_">>, [sig |-> 0, doc |-> 186]>>,
            <<<<"_","_","r","e","d","u","c","e","_","e","x","_","_">>, [sig |-> 11, doc |-> 16]>>,
            <<<<"_","_","r","e","p","r","_","_">>, [sig |-> 6, doc |-> 32]>>,
            <<<<"_","_","r","o","r","_","_">>, [sig |-> 1, doc |-> 35]>>,
            <<<<"_","_","r","s","u","b","_","_">>, [sig |-> 1, doc |-> 115]>>,
            <<<<"_","_","r","x","o","r","_","_">>, [sig |-> 1, doc |-> 117]>>,
            <<<<"_","_","s","e","t","a","t","t","r","_","_">>, [sig |-> 12, doc |-> 36]>>,
            <<<<"_","_","s","i","z","e","o","f","_","_">>, [sig |-> 0, doc |-> 187]>>,
            <<<<"_","_","s","t","r","_","_">>, [sig |-> 6, doc |-> 38]>>,
            <<<<"_","_","s","u","b","_","_">>, [sig |-> 1, doc |-> 119]>>,
            <<<<"_","_","s","u","b","c","l","a","s","s","c","h","e","c","k","_","_">>, [sig |-> 13, doc |-> 39]>>,
            <<<<"_","_","s","u","b","c","l","a","s","s","e","s","_","_">>, [sig |-> 2, doc |-> 40]>>,
            <<<<"_","_","s","u","b","c","l","a","s","s","h","o","o","k","_","_">>, [sig |-> 0, doc |-> 41]>>,
            <<<<"_","_","t","e","x","t","_","s","i","g","n","a","t","u","r","e","_","_">>, [sig |-> 0, doc |-> 0]>>,
            <<<<"_","_","w","e","a","k","r","e","f","o","f","f","s","e","t","_","_">>, [sig |-> 0, doc |-> 4]>>,
            <<<<"_","_","x","o","r","_","_">>, [sig |-> 1, doc |-> 122]>>,
            <<<<"a","d","d">>, [sig |-> 0, doc |-> 188]>>,
            <<<<"c","l","e","a","r">>, [sig |-> 0, doc |-> 189]>>,
            <<<<"c","o","p","y">>, [sig |-> 0, doc |-> 190]>>,
            <<<<"d","i","f","f","e","r","e","n","c","e">>, [sig |-> 0, doc |-> 191]>>,
            <<<<"d","i","f","f","e","r","e","n","c","e","_","u","p","d","a","t","e">>, [sig |-> 0, doc |-> 192]>>,
            <<<<"d","i","s","c","a","r","d">>, [sig |-> 0, doc |-> 193]>>,
            <<<<"i","n","t","e","r","s","e","c","t","i","o","n">>, [sig |-> 0, doc |-> 194]>>,
            <<<<"i","n","t","e","r","s","e","c","t","i","o","n","_","u","p","d","a","t","e">>, [sig |-> 0, doc |-> 195]>>,
            <<<<"i","s","d","i","s","j","o","i","n","t">>, [sig |-> 0, doc |-> 196]>>,
            <<<<"i","s","s","u","b","s","e","t">>, [sig |-> 0, doc |-> 197]>>,
            <<<<"i","s","s","u","p","e","r","s","e","t">>, [sig |-> 0, doc |-> 198]>>,
            <<<<"m","r","o">>, [sig |-> 2, doc |-> 70]>>,
            <<<<"p","o","p">>, [sig |-> 0, doc |-> 199]>>,
            <<<<"r","e","m","o","v","e">>, [sig |-> 0, doc |-> 200]>>,
            <<<<"s","y","m","m","e","t","r","i","c","_","d","i","f","f","e","r","e","n","c","e">>, [sig |-> 0, doc |-> 201]>>,
            <<<<"s","y","m","m","e","t","r","i","c","_","d","i","f","f","e","r","e","n","c","e","_","u","p","d","a","t","e">>, [sig |-> 0, doc |-> 202]>>,
            <<<<"u","n","i","o","n">>, [sig |-> 0, doc |-> 203]>>,
            <<<<"u","p","d","a","t","e">>, [sig |-> 0, doc |-> 204]>> >>)]>>,
      <<<<"<class 'frozenset'>">>,
          [dir |-> <<<<"_","_","a","n","d","_","_">>, <<"_","_","c","l","a","s","s","_","_">>, <<"_","_","c","l","a",
                   "s","s","_","g","e","t","i","t","e","m","_","_">>, <<"_","_","c","o","n","t","a",
                   "i","n","s","_","_">>, <<"_","_","d","e","l","a","t","t","r","_","_">>, <<"_",
                   "_","d","i","r","_","_">>, <<"_","_","d","o","c","_","_">>, <<"_","_","e","q",
                   "_","_">>, <<"_","_","f","o","r","m","a","t","_","_">>, <<"_","_","g","e","_","_"
                   >>, <<"_","_","g","e","t","a","t","t","r","i","b","u","t","e","_","_">>, <<"_",
                   "_","g","e","t","s","t","a","t","e","_","_">>, <<"_","_","g","t","_","_">>, <<
                   "_","_","h","a","s","h","_","_">>, <<"_","_","i","n","i","t","_","_">>, <<"_",
                   "_","i","n","i","t","_","s","u","b","c","l","a","s","s","_","_">>, <<"_","_","i",
                   "t","e","r","_","_">>, <<"_","_","l","e","_","_">>, <<"_","_","l","e","n","_","_"
                   >>, <<"_","_","l","t","_","_">>, <<"_","_","n","e","_","_">>, <<"_","_","n","e",
                   "w","_","_">>, <<"_","_","o","r","_","_">>, <<"_","_","r","a","n","d","_","_">>, 
                   <<"_","_","r","e","d","u","c","e","_","_">>, <<"_","_","r","e","d","u","c","e",
                   "_","e","x","_","_">>, <<"_","_","r","e","p","r","_","_">>, <<"_","_","r","o",
                   "r","_","_">>, <<"_","_","r","s","u","b","_","_">>, <<"_","_","r","x","o","r",
                   "_","_">>, <<"_","_","s","e","t","a","t","t","r","_","_">>, <<"_","_","s","i",
                   "z","e","o","f","_","_">>, <<"_","_","s","t","r","_","_">>, <<"_","_","s","u",
                   "b","_","_">>, <<"_","_","s","u","b","c","l","a","s","s","h","o","o","k","_","_"
                   >>, <<"_","_","x","o","r","_","_">>, <<"c","o","p","y">>, <<"d","i","f","f","e",
                   "r","e","n","c","e">>, <<"i","n","t","e","r","s","e","c","t","i","o","n">>, <<
                   "i","s","d","i","s","j","o","i","n","t">>, <<"i","s","s","u","b","s","e","t">>, 
                   <<"i","s","s","u","p","e","r","s","e","t">>, <<"s","y","m","m","e","t","r","i",
                   "c","_","d","i","f","f","e","r","e","n","c","e">>, <<"u","n","i","o","n">>>>,
           callable |-> {<<"_","_","a","n","d","_","_">>, <<"_","_","c","l","a","s","s","_","_">>, <<"_","_","c","l","a",
                        "s","s","_","g","e","t","i","t","e","m","_","_">>, <<"_","_","c","o","n",
                        "t","a","i","n","s","_","_">>, <<"_","_","d","e","l","a","t","t","r","_","_"
                        >>, <<"_","_","d","i","r","_","_">>, <<"_","_","e","q","_","_">>, <<"_","_",
                        "f","o","r","m","a","t","_","_">>, <<"_","_","g","e","_","_">>, <<"_","_",
                        "g","e","t","a","t","t","r","i","b","u","t","e","_","_">>, <<"_","_","g",
                        "e","t","s","t","a","t","e","_","_">>, <<"_","_","g","t","_","_">>, <<"_",
                        "_","h","a","s","h","_","_">>, <<"_","_","i","n","i","t","_","_">>, <<"_",
                        "_","i","n","i","t","_","s","u","b","c","l","a","s","s","_","_">>, <<"_",
                        "_","i","t","e","r","_","_">>, <<"_","_","l","e","_","_">>, <<"_","_","l",
                        "e","n","_","_">>, <<"_","_","l","t","_","_">>, <<"_","_","n","e","_","_">>
                        , <<"_","_","n","e","w","_","_">>, <<"_","_","o","r","_","_">>, <<"_","_",
                        "r","a","n","d","_","_">>, <<"_","_","r","e","d","u","c","e","_","_">>, <<
                        "_","_","r","e","d","u","c","e","_","e","x","_","_">>, <<"_","_","r","e",
                        "p","r","_","_">>, <<"_","_","r","o","r","_","_">>, <<"_","_","r","s","u",
                        "b","_","_">>, <<"_","_","r","x","o","r","_","_">>, <<"_","_","s","e","t",
                        "a","t","t","r","_","_">>, <<"_","_","s","i","z","e","o","f","_","_">>, <<
                        "_","_","s","t","r","_","_">>, <<"_","_","s","u","b","_","_">>, <<"_","_",
                        "s","u","b","c","l","a","s","s","h","o","o","k","_","_">>, <<"_","_","x",
                        "o","r","_","_">>, <<"c","o","p","y">>, <<"d","i","f","f","e","r","e","n",
                        "c","e">>, <<"i","n","t","e","r","s","e","c","t","i","o","n">>, <<"i","s",
                        "d","i","s","j","o","i","n","t">>, <<"i","s","s","u","b","s","e","t">>, <<
                        "i","s","s","u","p","e","r","s","e","t">>, <<"s","y","m","m","e","t","r",
                        "i","c","_","d","i","f","f","e","r","e","n","c","e">>, <<"u","n","i","o","n"
                        >>},
           attrs |-> DictOf(<<
            <<<<"_","_","a","n","d","_","_">>, [sig |-> 1, doc |-> 91]>>,
            <<<<"_","_","b","a","s","e","_","_">>, [sig |-> 2, doc |-> 2]>>,
            <<<<"_","_","b","a","s","e","s","_","_">>, [sig |-> 0, doc |-> 3]>>,
            <<<<"_","_","b","a","s","i","c","s","i","z","e","_","_">>, [sig |-> 0, doc |-> 4]>>,
            <<<<"_","_","c","a","l","l","_","_">>, [sig |-> 3, doc |-> 5]>>,
            <<<<"_","_","c","l","a","s","s","_","_">>, [sig |-> 0, doc |-> 6]>>,
            <<<<"_","_","c","l","a","s","s","_","g","e","t","i","t","e","m","_","_">>, [sig |-> 0, doc |-> 148]>>,
            <<<<"_","_","c","o","n","t","a","i","n","s","_","_">>, [sig |-> 0, doc |-> 182]>>,
            <<<<"_","_","d","e","l","a","t","t","r","_","_">>, [sig |-> 5, doc |-> 8]>>,
            <<<<"_","_","d","i","c","t","_","_">>, [sig |-> 0, doc |-> 0]>>,
            <<<<"_","_","d","i","c","t","o","f","f","s","e","t","_","_">>, [sig |-> 0, doc |-> 4]>>,
            <<<<"_","_","d","i","r","_","_">>, [sig |-> 6, doc |-> 9]>>,
            <<<<"_","_","d","o","c","_","_">>, [sig |-> 0, doc |-> 10]>>,
            <<<<"_","_","e","q","_","_">>, [sig |-> 1, doc |-> 11]>>,
            <<<<"_","_","f","l","a","g","s","_","_">>, [sig |-> 0, doc |-> 4]>>,
            <<<<"_","_","f","o","r","m","a","t","_","_">>, [sig |-> 7, doc |-> 98]>>,
            <<<<"_","_","g","e","_","_">>, [sig |-> 1, doc |-> 13]>>,
            <<<<"_","_","g","e","t","a","t","t","r","i","b","u","t","e","_","_">>, [sig |-> 5, doc |-> 14]>>,
            <<<<"_","_","g","e","t","s","t","a","t","e","_","_">>, [sig |-> 6, doc |-> 16]>>,
            <<<<"_","_","g","t","_","_">>, [sig |-> 1, doc |-> 17]>>,
            <<<<"_","_","h","a","s","h","_","_">>, [sig |-> 6, doc |-> 18]>>,
            <<<<"_","_","i","n","i","t","_","_">>, [sig |-> 8, doc |-> 19]>>,
            <<<<"_","_","i","n","i","t","_","s","u","b","c","l","a","s","s","_","_">>, [sig |-> 0, doc |-> 20]>>,
            <<<<"_","_","i","n","s","t","a","n","c","e","c","h","e","c","k","_","_">>, [sig |-> 9, doc |-> 21]>>,
            <<<<"_","_","i","t","e","m","s","i","z","e","_","_">>, [sig |-> 0, doc |-> 4]>>,
            <<<<"_","_","i","t","e","r","_","_">>, [sig |-> 6, doc |-> 22]>>,
            <<<<"_","_","l","e","_","_">>, [sig |-> 1, doc |-> 23]>>,
            <<<<"_","_","l","e","n","_","_">>, [sig |-> 6, doc |-> 24]>>,
            <<<<"_","_","l","t","_","_">>, [sig |-> 1, doc |-> 25]>>,
            <<<<"_","_","m","o","d","u","l","e","_","_">>, [sig |-> 0, doc |-> 10]>>,
            <<<<"_","_","m","r","o","_","_">>, [sig |-> 0, doc |-> 3]>>,
            <<<<"_","_","n","a","m","e","_","_">>, [sig |-> 0, doc |-> 10]>>,
            <<<<"_","_","n","e","_","_">>, [sig |-> 1, doc |-> 28]>>,
            <<<<"_","_","n","e","w","_","_">>, [sig |-> 3, doc |-> 29]>>,
            <<<<"_","_","o","r","_","_">>, [sig |-> 1, doc |-> 30]>>,
            <<<<"_","_","p","r","e","p","a","r","e","_","_">>, [sig |-> 0, doc |-> 31]>>,
            <<<<"_","_","q","u","a","l","n","a","m","e","_","_">>, [sig |-> 0, doc |-> 10]>>,
            <<<<"_","_","r","a","n","d","_","_">>, [sig |-> 1, doc |-> 107]>>,
            <<<<"_","_","r","e","d","u","c","e","_","_">>, [sig |-> 0, doc |-> 186]>>,
            <<<<"_","_","r","e","d","u","c","e","_","e","x","_","_">>, [sig |-> 11, doc |-> 16]>>,
            <<<<"_","_","r","e","p","r","_","_">>, [sig |-> 6, doc |-> 32]>>,
            <<<<"_","_","r","o","r","_","_">>, [sig |-> 1, doc |-> 35]>>,
            <<<<"_","_","r","s","u","b","_","_">>, [sig |-> 1, doc |-> 115]>>,
            <<<<"_","_","r","x","o","r","_","_">>, [sig |-> 1, doc |-> 117]>>,
            <<<<"_","_","s","e","t","a","t","t","r","_","_">>, [sig |-> 12, doc |-> 36]>>,
            <<<<"_","_","s","i","z","e","o","f","_","_">>, [sig |-> 0, doc |-> 187]>>,
            <<<<"_","_","s","t","r","_","_">>, [sig |-> 6, doc |-> 38]>>,
            <<<<"_","_","s","u","b","_","_">>, [sig |-> 1, doc |-> 119]>>,
            <<<<"_","_","s","u","b","c","l","a","s","s","c","h","e","c","k","_","_">>, [sig |-> 13, doc |-> 39]>>,
            <<<<"_","_","s","u","b","c","l","a","s","s","e","s","_","_">>, [sig |-> 2, doc |-> 40]>>,
            <<<<"_","_","s","u","b","c","l","a","s","s","h","o","o","k","_","_">>, [sig |-> 0, doc |-> 41]>>,
            <<<<"_","_","t","e","x","t","_","s","i","g","n","a","t","u","r","e","_","_">>, [sig |-> 0, doc |-> 0]>>,
            <<<<"_","_","w","e","a","k","r","e","f","o","f","f","s","e","t","_","_">>, [sig |-> 0, doc |-> 4]>>,
            <<<<"_","_","x","o","r","_","_">>, [sig |-> 1, doc |-> 122]>>,
            <<<<"c","o","p","y">>, [sig |-> 0, doc |-> 190]>>,
            <<<<"d","i","f","f","e","r","e","n","c","e">>, [sig |-> 0, doc |-> 191]>>,
            <<<<"i","n","t","e","r","s","e","c","t","i","o","n">>, [sig |-> 0, doc |-> 194]>>,
            <<<<"i","s","d","i","s","j","o","i","n","t">>, [sig |-> 0, doc |-> 196]>>,
            <<<<"i","s","s","u","b","s","e","t">>, [sig |-> 0, doc |-> 197]>>,
            <<<<"i","s","s","u","p","e","r","s","e","t">>, [sig |-> 0, doc |-> 198]>>,
            <<<<"m","r","o">>, [sig |-> 2, doc |-> 70]>>,
            <<<<"s","y","m","m","e","t","r","i","c","_","d","i","f","f","e","r","e","n","c","e">>, [sig |-> 0, doc |-> 201]>>,
            <<<<"u","n","i","o","n">>, [sig |-> 0, doc |-> 203]>> >>)]>>,
      <<<<"<class 'bool'>">>,
          [dir |-> <<<<"_","_","a","b","s","_","_">>, <<"_","_","a","d","d","_","_">>, <<"_","_","a","n","d","_","_">>
                   , <<"_","_","b","o","o","l","_","_">>, <<"_","_","c","e","i","l","_","_">>, <<
                   "_","_","c","l","a","s","s","_","_">>, <<"_","_","d","e","l","a","t","t","r","_",
                   "_">>, <<"_","_","d","i","r","_","_">>, <<"_","_","d","i","v","m","o","d","_","_"
                   >>, <<"_","_","d","o","c","_","_">>, <<"_","_","e","q","_","_">>, <<"_","_","f",
                   "l","o","a","t","_","_">>, <<"_","_","f","l","o","o","r","_","_">>, <<"_","_",
                   "f","l","o","o","r","d","i","v","_","_">>, <<"_","_","f","o","r","m","a","t","_",
                   "_">>, <<"_","_","g","e","_","_">>, <<"_","_","g","e","t","a","t","t","r","i",
                   "b","u","t","e","_","_">>, <<"_","_","g","e","t","n","e","w","a","r","g","s","_",
                   "_">>, <<"_","_","g","e","t","s","t","a","t","e","_","_">>, <<"_","_","g","t",
                   "_","_">>, <<"_","_","h","a","s","h","_","_">>, <<"_","_","i","n","d","e","x",
                   "_","_">>, <<"_","_","i","n","i","t","_","_">>, <<"_","_","i","n","i","t","_",
                   "s","u","b","c","l","a","s","s","_","_">>, <<"_","_","i","n","t","_","_">>, <<
                   "_","_","i","n","v","e","r","t","_","_">>, <<"_","_","l","e","_","_">>, <<"_",
                   "_","l","s","h","i","f","t","_","_">>, <<"_","_","l","t","_","_">>, <<"_","_",
                   "m","o","d","_","_">>, <<"_","_","m","u","l","_","_">>, <<"_","_","n","e","_","_"
                   >>, <<"_","_","n","e","g","_","_">>, <<"_","_","n","e","w","_","_">>, <<"_","_",
                   "o","r","_","_">>, <<"_","_","p","o","s","_","_">>, <<"_","_","p","o","w","_","_"
                   >>, <<"_","_","r","a","d","d","_","_">>, <<"_","_","r","a","n","d","_","_">>, <<
                   "_","_","r","d","i","v","m","o","d","_","_">>, <<"_","_","r","e","d","u","c","e",
                   "_","_">>, <<"_","_","r","e","d","u","c","e","_","e","x","_","_">>, <<"_","_",
                   "r","e","p","r","_","_">>, <<"_","_","r","f","l","o","o","r","d","i","v","_","_"
                   >>, <<"_","_","r","l","s","h","i","f","t","_","_">>, <<"_","_","r","m","o","d",
                   "_","_">>, <<"_","_","r","m","u","l","_","_">>, <<"_","_","r","o","r","_","_">>, 
                   <<"_","_","r","o","u","n","d","_","_">>, <<"_","_","r","p","o","w","_","_">>, <<
                   "_","_","r","r","s","h","i","f","t","_","_">>, <<"_","_","r","s","h","i","f","t",
                   "_","_">>, <<"_","_","r","s","u","b","_","_">>, <<"_","_","r","t","r","u","e",
                   "d","i","v","_","_">>, <<"_","_","r","x","o","r","_","_">>, <<"_","_","s","e",
                   "t","a","t","t","r","_","_">>, <<"_","_","s","i","z","e","o","f","_","_">>, <<
                   "_","_","s","t","r","_","_">>, <<"_","_","s","u","b","_","_">>, <<"_","_","s",
                   "u","b","c","l","a","s","s","h","o","o","k","_","_">>, <<"_","_","t","r","u","e",
                   "d","i","v","_","_">>, <<"_","_","t","r","u","n","c","_","_">>, <<"_","_","x",
                   "o","r","_","_">>, <<"a","s","_","i","n","t","e","g","e","r","_","r","a","t","i",
                   "o">>, <<"b","i","t","_","c","o","u","n","t">>, <<"b","i","t","_","l","e","n",
                   "g","t","h">>, <<"c","o","n","j","u","g","a","t","e">>, <<"d","e","n","o","m",
                   "i","n","a","t","o","r">>, <<"f","r","o","m","_","b","y","t","e","s">>, <<"i",
                   "m","a","g">>, <<"n","u","m","e","r","a","t","o","r">>, <<"r","e","a","l">>, <<
                   "t","o","_","b","y","t","e","s">>>>,
           callable |-> {<<"_","_","a","b","s","_","_">>, <<"_","_","a","d","d","_","_">>, <<"_","_","a","n","d","_","_">>, 
                        <<"_","_","b","o","o","l","_","_">>, <<"_","_","c","e","i","l","_","_">>, <<
                        "_","_","c","l","a","s","s","_","_">>, <<"_","_","d","e","l","a","t","t",
                        "r","_","_">>, <<"_","_","d","i","r","_","_">>, <<"_","_","d","i","v","m",
                        "o","d","_","_">>, <<"_","_","e","q","_","_">>, <<"_","_","f","l","o","a",
                        "t","_","_">>, <<"_","_","f","l","o","o","r","_","_">>, <<"_","_","f","l",
                        "o","o","r","d","i","v","_","_">>, <<"_","_","f","o","r","m","a","t","_","_"
                        >>, <<"_","_","g","e","_","_">>, <<"_","_","g","e","t","a","t","t","r","i",
                        "b","u","t","e","_","_">>, <<"_","_","g","e","t","n","e","w","a","r","g",
                        "s","_","_">>, <<"_","_","g","e","t","s","t","a","t","e","_","_">>, <<"_",
                        "_","g","t","_","_">>, <<"_","_","h","a","s","h","_","_">>, <<"_","_","i",
                        "n","d","e","x","_","_">>, <<"_","_","i","n","i","t","_","_">>, <<"_","_",
                        "i","n","i","t","_","s","u","b","c","l","a","s","s","_","_">>, <<"_","_",
                        "i","n","t","_","_">>, <<"_","_","i","n","v","e","r","t","_","_">>, <<"_",
                        "_","l","e","_","_">>, <<"_","_","l","s","h","i","f","t","_","_">>, <<"_",
                        "_","l","t","_","_">>, <<"_","_","m","o","d","_","_">>, <<"_","_","m","u",
                        "l","_","_">>, <<"_","_","n","e","_","_">>, <<"_","_","n","e","g","_","_">>
                        , <<"_","_","n","e","w","_","_">>, <<"_","_","o","r","_","_">>, <<"_","_",
                        "p","o","s","_","_">>, <<"_","_","p","o","w","_","_">>, <<"_","_","r","a",
                        "d","d","_","_">>, <<"_","_","r","a","n","d","_","_">>, <<"_","_","r","d",
                        "i","v","m","o","d","_","_">>, <<"_","_","r","e","d","u","c","e","_","_">>, 
                        <<"_","_","r","e","d","u","c","e","_","e","x","_","_">>, <<"_","_","r","e",
                        "p","r","_","_">>, <<"_","_","r","f","l","o","o","r","d","i","v","_","_">>, 
                        <<"_","_","r","l","s","h","i","f","t","_","_">>, <<"_","_","r","m","o","d",
                        "_","_">>, <<"_","_","r","m","u","l","_","_">>, <<"_","_","r","o","r","_",
                        "_">>, <<"_","_","r","o","u","n","d","_","_">>, <<"_","_","r","p","o","w",
                        "_","_">>, <<"_","_","r","r","s","h","i","f","t","_","_">>, <<"_","_","r",
                        "s","h","i","f","t","_","_">>, <<"_","_","r","s","u","b","_","_">>, <<"_",
                        "_","r","t","r","u","e","d","i","v","_","_">>, <<"_","_","r","x","o","r",
                        "_","_">>, <<"_","_","s","e","t","a","t","t","r","_","_">>, <<"_","_","s",
                        "i","z","e","o","f","_","_">>, <<"_","_","s","t","r","_","_">>, <<"_","_",
                        "s","u","b","_","_">>, <<"_","_","s","u","b","c","l","a","s","s","h","o",
                        "o","k","_","_">>, <<"_","_","t","r","u","e","d","i","v","_","_">>, <<"_",
                        "_","t","r","u","n","c","_","_">>, <<"_","_","x","o","r","_","_">>, <<"a",
                        "s","_","i","n","t","e","g","e","r","_","r","a","t","i","o">>, <<"b","i",
                        "t","_","c","o","u","n","t">>, <<"b","i","t","_","l","e","n","g","t","h">>, 
                        <<"c","o","n","j","u","g","a","t","e">>, <<"f","r","o","m","_","b","y","t",
                        "e","s">>, <<"t","o","_","b","y","t","e","s">>},
           attrs |-> DictOf(<<
            <<<<"_","_","a","b","s","_","_">>, [sig |-> 6, doc |-> 90]>>,
            <<<<"_","_","a","d","d","_","_">>, [sig |-> 1, doc |-> 1]>>,
            <<<<"_","_","a","n","d","_","_">>, [sig |-> 1, doc |-> 91]>>,
            <<<<"_","_","b","a","s","e","_","_">>, [sig |-> 0, doc |-> 4]>>,
            <<<<"_","_","b","a","s","e","s","_","_">>, [sig |-> 0, doc |-> 3]>>,
            <<<<"_","_","b","a","s","i","c","s","i","z","e","_","_">>, [sig |-> 0, doc |-> 4]>>,
            <<<<"_","_","b","o","o","l","_","_">>, [sig |-> 6, doc |-> 92]>>,
            <<<<"_","_","c","a","l","l","_","_">>, [sig |-> 3, doc |-> 5]>>,
            <<<<"_","_","c","e","i","l","_","_">>, [sig |-> 0, doc |-> 93]>>,
            <<<<"_","_","c","l","a","s","s","_","_">>, [sig |-> 0, doc |-> 6]>>,
            <<<<"_","_","d","e","l","a","t","t","r","_","_">>, [sig |-> 5, doc |-> 8]>>,
            <<<<"_","_","d","i","c","t","_","_">>, [sig |-> 0, doc |-> 0]>>,
            <<<<"_","_","d","i","c","t","o","f","f","s","e","t","_","_">>, [sig |-> 0, doc |-> 4]>>,
            <<<<"_","_","d","i","r","_","_">>, [sig |-> 6, doc |-> 9]>>,
            <<<<"_","_","d","i","v","m","o","d","_","_">>, [sig |-> 1, doc |-> 94]>>,
            <<<<"_","_","d","o","c","_","_">>, [sig |-> 0, doc |-> 10]>>,
            <<<<"_","_","e","q","_","_">>, [sig |-> 1, doc |-> 11]>>,
            <<<<"_","_","f","l","a","g","s","_","_">>, [sig |-> 0, doc |-> 4]>>,
            <<<<"_","_","f","l","o","a","t","_","_">>, [sig |-> 6, doc |-> 95]>>,
            <<<<"_","_","f","l","o","o","r","_","_">>, [sig |-> 0, doc |-> 96]>>,
            <<<<"_","_","f","l","o","o","r","d","i","v","_","_">>, [sig |-> 1, doc |-> 97]>>,
            <<<<"_","_","f","o","r","m","a","t","_","_">>, [sig |-> 7, doc |-> 98]>>,
            <<<<"_","_","g","e","_","_">>, [sig |-> 1, doc |-> 13]>>,
            <<<<"_","_","g","e","t","a","t","t","r","i","b","u","t","e","_","_">>, [sig |-> 5, doc |-> 14]>>,
            <<<<"_","_","g","e","t","n","e","w","a","r","g","s","_","_">>, [sig |-> 6, doc |-> 0]>>,
            <<<<"_","_","g","e","t","s","t","a","t","e","_","_">>, [sig |-> 6, doc |-> 16]>>,
            <<<<"_","_","g","t","_","_">>, [sig |-> 1, doc |-> 17]>>,
            <<<<"_","_","h","a","s","h","_","_">>, [sig |-> 6, doc |-> 18]>>,
            <<<<"_","_","i","n","d","e","x","_","_">>, [sig |-> 6, doc |-> 99]>>,
            <<<<"_","_","i","n","i","t","_","_">>, [sig |-> 8, doc |-> 19]>>,
            <<<<"_","_","i","n","i","t","_","s","u","b","c","l","a","s","s","_","_">>, [sig |-> 0, doc |-> 20]>>,
            <<<<"_","_","i","n","s","t","a","n","c","e","c","h","e","c","k","_","_">>, [sig |-> 9, doc |-> 21]>>,
            <<<<"_","_","i","n","t","_","_">>, [sig |-> 6, doc |-> 100]>>,
            <<<<"_","_","i","n","v","e","r","t","_","_">>, [sig |-> 6, doc |-> 101]>>,
            <<<<"_","_","i","t","e","m","s","i","z","e","_","_">>, [sig |-> 0, doc |-> 4]>>,
            <<<<"_","_","l","e","_","_">>, [sig |-> 1, doc |-> 23]>>,
            <<<<"_","_","l","s","h","i","f","t","_","_">>, [sig |-> 1, doc |-> 102]>>,
            <<<<"_","_","l","t","_","_">>, [sig |-> 1, doc |-> 25]>>,
            <<<<"_","_","m","o","d","_","_">>, [sig |-> 1, doc |-> 26]>>,
            <<<<"_","_","m","o","d","u","l","e","_","_">>, [sig |-> 0, doc |-> 10]>>,
            <<<<"_","_","m","r","o","_","_">>, [sig |-> 0, doc |-> 3]>>,
            <<<<"_","_","m","u","l","_","_">>, [sig |-> 1, doc |-> 27]>>,
            <<<<"_","_","n","a","m","e","_","_">>, [sig |-> 0, doc |-> 10]>>,
            <<<<"_","_","n","e","_","_">>, [sig |-> 1, doc |-> 28]>>,
            <<<<"_","_","n","e","g","_","_">>, [sig |-> 6, doc |-> 103]>>,
            <<<<"_","_","n","e","w","_","_">>, [sig |-> 3, doc |-> 29]>>,
            <<<<"_","_","o","r","_","_">>, [sig |-> 1, doc |-> 30]>>,
            <<<<"_","_","p","o","s","_","_">>, [sig |-> 6, doc |-> 104]>>,
            <<<<"_","_","p","o","w","_","_">>, [sig |-> 27, doc |-> 105]>>,
            <<<<"_","_","p","r","e","p","a","r","e","_","_">>, [sig |-> 0, doc |-> 31]>>,
            <<<<"_","_","q","u","a","l","n","a","m","e","_","_">>, [sig |-> 0, doc |-> 10]>>,
            <<<<"_","_","r","a","d","d","_","_">>, [sig |-> 1, doc |-> 106]>>,
            <<<<"_","_","r","a","n","d","_","_">>, [sig |-> 1, doc |-> 107]>>,
            <<<<"_","_","r","d","i","v","m","o","d","_","_">>, [sig |-> 1, doc |-> 108]>>,
            <<<<"_","_","r","e","d","u","c","e","_","_">>, [sig |-> 6, doc |-> 16]>>,
            <<<<"_","_","r","e","d","u","c","e","_","e","x","_","_">>, [sig |-> 11, doc |-> 16]>>,
            <<<<"_","_","r","e","p","r","_","_">>, [sig |-> 6, doc |-> 32]>>,
            <<<<"_","_","r","f","l","o","o","r","d","i","v","_","_">>, [sig |-> 1, doc |-> 109]>>,
            <<<<"_","_","r","l","s","h","i","f","t","_","_">>, [sig |-> 1, doc |-> 110]>>,
            <<<<"_","_","r","m","o","d","_","_">>, [sig |-> 1, doc |-> 33]>>,
            <<<<"_","_","r","m","u","l","_","_">>, [sig |-> 1, doc |-> 34]>>,
            <<<<"_","_","r","o","r","_","_">>, [sig |-> 1, doc |-> 35]>>,
            <<<<"_","_","r","o","u","n","d","_","_">>, [sig |-> 0, doc |-> 111]>>,
            <<<<"_","_","r","p","o","w","_","_">>, [sig |-> 27, doc |-> 112]>>,
            <<<<"_","_","r","r","s","h","i","f","t","_","_">>, [sig |-> 1, doc |-> 113]>>,
            <<<<"_","_","r","s","h","i","f","t","_","_">>, [sig |-> 1, doc |-> 114]>>,
            <<<<"_","_","r","s","u","b","_","_">>, [sig |-> 1, doc |-> 115]>>,
            <<<<"_","_","r","t","r","u","e","d","i","v","_","_">>, [sig |-> 1, doc |-> 116]>>,
            <<<<"_","_","r","x","o","r","_","_">>, [sig |-> 1, doc |-> 117]>>,
            <<<<"_","_","s","e","t","a","t","t","r","_","_">>, [sig |-> 12, doc |-> 36]>>,
            <<<<"_","_","s","i","z","e","o","f","_","_">>, [sig |-> 6, doc |-> 118]>>,
            <<<<"_","_","s","t","r","_","_">>, [sig |-> 6, doc |-> 38]>>,
            <<<<"_","_","s","u","b","_","_">>, [sig |-> 1, doc |-> 119]>>,
            <<<<"_","_","s","u","b","c","l","a","s","s","c","h","e","c","k","_","_">>, [sig |-> 13, doc |-> 39]>>,
            <<<<"_","_","s","u","b","c","l","a","s","s","e","s","_","_">>, [sig |-> 2, doc |-> 40]>>,
            <<<<"_","_","s","u","b","c","l","a","s","s","h","o","o","k","_","_">>, [sig |-> 0, doc |-> 41]>>,
            <<<<"_","_","t","e","x","t","_","s","i","g","n","a","t","u","r","e","_","_">>, [sig |-> 0, doc |-> 0]>>,
            <<<<"_","_","t","r","u","e","d","i","v","_","_">>, [sig |-> 1, doc |-> 120]>>,
            <<<<"_","_","t","r","u","n","c","_","_">>, [sig |-> 0, doc |-> 121]>>,
            <<<<"_","_","w","e","a","k","r","e","f","o","f","f","s","e","t","_","_">>, [sig |-> 0, doc |-> 4]>>,
            <<<<"_","_","x","o","r","_","_">>, [sig |-> 1, doc |-> 122]>>,
            <<<<"a","s","_","i","n","t","e","g","e","r","_","r","a","t","i","o">>, [sig |-> 6, doc |-> 123]>>,
            <<<<"b","i","t","_","c","o","u","n","t">>, [sig |-> 6, doc |-> 124]>>,
            <<<<"b","i","t","_","l","e","n","g","t","h">>, [sig |-> 6, doc |-> 125]>>,
            <<<<"c","o","n","j","u","g","a","t","e">>, [sig |-> 0, doc |-> 126]>>,
            <<<<"d","e","n","o","m","i","n","a","t","o","r">>, [sig |-> 0, doc |-> 127]>>,
            <<<<"f","r","o","m","_","b","y","t","e","s">>, [sig |-> 28, doc |-> 128]>>,
            <<<<"i","m","a","g">>, [sig |-> 0, doc |-> 129]>>,
            <<<<"m","r","o">>, [sig |-> 2, doc |-> 70]>>,
            <<<<"n","u","m","e","r","a","t","o","r">>, [sig |-> 0, doc |-> 130]>>,
            <<<<"r","e","a","l">>, [sig |-> 0, doc |-> 131]>>,
            <<<<"t","o","_","b","y","t","e","s">>, [sig |-> 29, doc |-> 132]>> >>)]>>,
      <<<<"<class 'bytes'>">>,
          [dir |-> <<<<"_","_","a","d","d","_","_">>, <<"_","_","b","y","t","e","s","_","_">>, <<"_","_","c","l","a",
                   "s","s","_","_">>, <<"_","_","c","o","n","t","a","i","n","s","_","_">>, <<"_",
                   "_","d","e","l","a","t","t","r","_","_">>, <<"_","_","d","i","r","_","_">>, <<
                   "_","_","d","o","c","_","_">>, <<"_","_","e","q","_","_">>, <<"_","_","f","o",
                   "r","m","a","t","_","_">>, <<"_","_","g","e","_","_">>, <<"_","_","g","e","t",
                   "a","t","t","r","i","b","u","t","e","_","_">>, <<"_","_","g","e","t","i","t","e",
                   "m","_","_">>, <<"_","_","g","e","t","n","e","w","a","r","g","s","_","_">>, <<
                   "_","_","g","e","t","s","t","a","t","e","_","_">>, <<"_","_","g","t","_","_">>, 
                   <<"_","_","h","a","s","h","_","_">>, <<"_","_","i","n","i","t","_","_">>, <<"_",
                   "_","i","n","i","t","_","s","u","b","c","l","a","s","s","_","_">>, <<"_","_","i",
                   "t","e","r","_","_">>, <<"_","_","l","e","_","_">>, <<"_","_","l","e","n","_","_"
                   >>, <<"_","_","l","t","_","_">>, <<"_","_","m","o","d","_","_">>, <<"_","_","m",
                   "u","l","_","_">>, <<"_","_","n","e","_","_">>, <<"_","_","n","e","w","_","_">>, 
                   <<"_","_","r","e","d","u","c","e","_","_">>, <<"_","_","r","e","d","u","c","e",
                   "_","e","x","_","_">>, <<"_","_","r","e","p","r","_","_">>, <<"_","_","r","m",
                   "o","d","_","_">>, <<"_","_","r","m","u","l","_","_">>, <<"_","_","s","e","t",
                   "a","t","t","r","_","_">>, <<"_","_","s","i","z","e","o","f","_","_">>, <<"_",
                   "_","s","t","r","_","_">>, <<"_","_","s","u","b","c","l","a","s","s","h","o","o",
                   "k","_","_">>, <<"c","a","p","i","t","a","l","i","z","e">>, <<"c","e","n","t",
                   "e","r">>, <<"c","o","u","n","t">>, <<"d","e","c","o","d","e">>, <<"e","n","d",
                   "s","w","i","t","h">>, <<"e","x","p","a","n","d","t","a","b","s">>, <<"f","i",
                   "n","d">>, <<"f","r","o","m","h","e","x">>, <<"h","e","x">>, <<"i","n","d","e",
                   "x">>, <<"i","s","a","l","n","u","m">>, <<"i","s","a","l","p","h","a">>, <<"i",
                   "s","a","s","c","i","i">>, <<"i","s","d","i","g","i","t">>, <<"i","s","l","o",
                   "w","e","r">>, <<"i","s","s","p","a","c","e">>, <<"i","s","t","i","t","l","e">>, 
                   <<"i","s","u","p","p","e","r">>, <<"j","o","i","n">>, <<"l","j","u","s","t">>, <<
                   "l","o","w","e","r">>, <<"l","s","t","r","i","p">>, <<"m","a","k","e","t","r",
                   "a","n","s">>, <<"p","a","r","t","i","t","i","o","n">>, <<"r","e","m","o","v",
                   "e","p","r","e","f","i","x">>, <<"r","e","m","o","v","e","s","u","f","f","i","x"
                   >>, <<"r","e","p","l","a","c","e">>, <<"r","f","i","n","d">>, <<"r","i","n","d",
                   "e","x">>, <<"r","j","u","s","t">>, <<"r","p","a","r","t","i","t","i","o","n">>, 
                   <<"r","s","p","l","i","t">>, <<"r","s","t","r","i","p">>, <<"s","p","l","i","t">>
                   , <<"s","p","l","i","t","l","i","n","e","s">>, <<"s","t","a","r","t","s","w","i",
                   "t","h">>, <<"s","t","r","i","p">>, <<"s","w","a","p","c","a","s","e">>, <<"t",
                   "i","t","l","e">>, <<"t","r","a","n","s","l","a","t","e">>, <<"u","p","p","e","r"
                   >>, <<"z","f","i","l","l">>>>,
           callable |-> {<<"_","_","a","d","d","_","_">>, <<"_","_","b","y","t","e","s","_","_">>, <<"_","_","c","l","a",
                        "s","s","_","_">>, <<"_","_","c","o","n","t","a","i","n","s","_","_">>, <<
                        "_","_","d","e","l","a","t","t","r","_","_">>, <<"_","_","d","i","r","_","_"
                        >>, <<"_","_","e","q","_","_">>, <<"_","_","f","o","r","m","a","t","_","_">>
                        , <<"_","_","g","e","_","_">>, <<"_","_","g","e","t","a","t","t","r","i",
                        "b","u","t","e","_","_">>, <<"_","_","g","e","t","i","t","e","m","_","_">>, 
                        <<"_","_","g","e","t","n","e","w","a","r","g","s","_","_">>, <<"_","_","g",
                        "e","t","s","t","a","t","e","_","_">>, <<"_","_","g","t","_","_">>, <<"_",
                        "_","h","a","s","h","_","_">>, <<"_","_","i","n","i","t","_","_">>, <<"_",
                        "_","i","n","i","t","_","s","u","b","c","l","a","s","s","_","_">>, <<"_",
                        "_","i","t","e","r","_","_">>, <<"_","_","l","e","_","_">>, <<"_","_","l",
                        "e","n","_","_">>, <<"_","_","l","t","_","_">>, <<"_","_","m","o","d","_",
                        "_">>, <<"_","_","m","u","l","_","_">>, <<"_","_","n","e","_","_">>, <<"_",
                        "_","n","e","w","_","_">>, <<"_","_","r","e","d","u","c","e","_","_">>, <<
                        "_","_","r","e","d","u","c","e","_","e","x","_","_">>, <<"_","_","r","e",
                        "p","r","_","_">>, <<"_","_","r","m","o","d","_","_">>, <<"_","_","r","m",
                        "u","l","_","_">>, <<"_","_","s","e","t","a","t","t","r","_","_">>, <<"_",
                        "_","s","i","z","e","o","f","_","_">>, <<"_","_","s","t","r","_","_">>, <<
                        "_","_","s","u","b","c","l","a","s","s","h","o","o","k","_","_">>, <<"c",
                        "a","p","i","t","a","l","i","z","e">>, <<"c","e","n","t","e","r">>, <<"c",
                        "o","u","n","t">>, <<"d","e","c","o","d","e">>, <<"e","n","d","s","w","i",
                        "t","h">>, <<"e","x","p","a","n","d","t","a","b","s">>, <<"f","i","n","d">>
                        , <<"f","r","o","m","h","e","x">>, <<"h","e","x">>, <<"i","n","d","e","x">>
                        , <<"i","s","a","l","n","u","m">>, <<"i","s","a","l","p","h","a">>, <<"i",
                        "s","a","s","c","i","i">>, <<"i","s","d","i","g","i","t">>, <<"i","s","l",
                        "o","w","e","r">>, <<"i","s","s","p","a","c","e">>, <<"i","s","t","i","t",
                        "l","e">>, <<"i","s","u","p","p","e","r">>, <<"j","o","i","n">>, <<"l","j",
                        "u","s","t">>, <<"l","o","w","e","r">>, <<"l","s","t","r","i","p">>, <<"m",
                        "a","k","e","t","r","a","n","s">>, <<"p","a","r","t","i","t","i","o","n">>, 
                        <<"r","e","m","o","v","e","p","r","e","f","i","x">>, <<"r","e","m","o","v",
                        "e","s","u","f","f","i","x">>, <<"r","e","p","l","a","c","e">>, <<"r","f",
                        "i","n","d">>, <<"r","i","n","d","e","x">>, <<"r","j","u","s","t">>, <<"r",
                        "p","a","r","t","i","t","i","o","n">>, <<"r","s","p","l","i","t">>, <<"r",
                        "s","t","r","i","p">>, <<"s","p","l","i","t">>, <<"s","p","l","i","t","l",
                        "i","n","e","s">>, <<"s","t","a","r","t","s","w","i","t","h">>, <<"s","t",
                        "r","i","p">>, <<"s","w","a","p","c","a","s","e">>, <<"t","i","t","l","e">>
                        , <<"t","r","a","n","s","l","a","t","e">>, <<"u","p","p","e","r">>, <<"z",
                        "f","i","l","l">>},
           attrs |-> DictOf(<<
            <<<<"_","_","a","d","d","_","_">>, [sig |-> 1, doc |-> 1]>>,
            <<<<"_","_","b","a","s","e","_","_">>, [sig |-> 2, doc |-> 2]>>,
            <<<<"_","_","b","a","s","e","s","_","_">>, [sig |-> 0, doc |-> 3]>>,
            <<<<"_","_","b","a","s","i","c","s","i","z","e","_","_">>, [sig |-> 0, doc |-> 4]>>,
            <<<<"_","_","b","y","t","e","s","_","_">>, [sig |-> 6, doc |-> 205]>>,
            <<<<"_","_","c","a","l","l","_","_">>, [sig |-> 3, doc |-> 5]>>,
            <<<<"_","_","c","l","a","s","s","_","_">>, [sig |-> 0, doc |-> 6]>>,
            <<<<"_","_","c","o","n","t","a","i","n","s","_","_">>, [sig |-> 4, doc |-> 7]>>,
            <<<<"_","_","d","e","l","a","t","t","r","_","_">>, [sig |-> 5, doc |-> 8]>>,
            <<<<"_","_","d","i","c","t","_","_">>, [sig |-> 0, doc |-> 0]>>,
            <<<<"_","_","d","i","c","t","o","f","f","s","e","t","_","_">>, [sig |-> 0, doc |-> 4]>>,
            <<<<"_","_","d","i","r","_","_">>, [sig |-> 6, doc |-> 9]>>,
            <<<<"_","_","d","o","c","_","_">>, [sig |-> 0, doc |-> 10]>>,
            <<<<"_","_","e","q","_","_">>, [sig |-> 1, doc |-> 11]>>,
            <<<<"_","_","f","l","a","g","s","_","_">>, [sig |-> 0, doc |-> 4]>>,
            <<<<"_","_","f","o","r","m","a","t","_","_">>, [sig |-> 7, doc |-> 98]>>,
            <<<<"_","_","g","e","_","_">>, [sig |-> 1, doc |-> 13]>>,
            <<<<"_","_","g","e","t","a","t","t","r","i","b","u","t","e","_","_">>, [sig |-> 5, doc |-> 14]>>,
            <<<<"_","_","g","e","t","i","t","e","m","_","_">>, [sig |-> 4, doc |-> 15]>>,
            <<<<"_","_","g","e","t","n","e","w","a","r","g","s","_","_">>, [sig |-> 0, doc |-> 0]>>,
            <<<<"_","_","g","e","t","s","t","a","t","e","_","_">>, [sig |-> 6, doc |-> 16]>>,
            <<<<"_","_","g","t","_","_">>, [sig |-> 1, doc |-> 17]>>,
            <<<<"_","_","h","a","s","h","_","_">>, [sig |-> 6, doc |-> 18]>>,
            <<<<"_","_","i","n","i","t","_","_">>, [sig |-> 8, doc |-> 19]>>,
            <<<<"_","_","i","n","i","t","_","s","u","b","c","l","a","s","s","_","_">>, [sig |-> 0, doc |-> 20]>>,
            <<<<"_","_","i","n","s","t","a","n","c","e","c","h","e","c","k","_","_">>, [sig |-> 9, doc |-> 21]>>,
            <<<<"_","_","i","t","e","m","s","i","z","e","_","_">>, [sig |-> 0, doc |-> 4]>>,
            <<<<"_","_","i","t","e","r","_","_">>, [sig |-> 6, doc |-> 22]>>,
            <<<<"_","_","l","e","_","_">>, [sig |-> 1, doc |-> 23]>>,
            <<<<"_","_","l","e","n","_","_">>, [sig |-> 6, doc |-> 24]>>,
            <<<<"_","_","l","t","_","_">>, [sig |-> 1, doc |-> 25]>>,
            <<<<"_","_","m","o","d","_","_">>, [sig |-> 1, doc |-> 26]>>,
            <<<<"_","_","m","o","d","u","l","e","_","_">>, [sig |-> 0, doc |-> 10]>>,
            <<<<"_","_","m","r","o","_","_">>, [sig |-> 0, doc |-> 3]>>,
            <<<<"_","_","m","u","l","_","_">>, [sig |-> 1, doc |-> 27]>>,
            <<<<"_","_","n","a","m","e","_","_">>, [sig |-> 0, doc |-> 10]>>,
            <<<<"_","_","n","e","_","_">>, [sig |-> 1, doc |-> 28]>>,
            <<<<"_","_","n","e","w","_","_">>, [sig |-> 3, doc |-> 29]>>,
            <<<<"_","_","o","r","_","_">>, [sig |-> 10, doc |-> 30]>>,
            <<<<"_","_","p","r","e","p","a","r","e","_","_">>, [sig |-> 0, doc |-> 31]>>,
            <<<<"_","_","q","u","a","l","n","a","m","e","_","_">>, [sig |-> 0, doc |-> 10]>>,
            <<<<"_","_","r","e","d","u","c","e","_","_">>, [sig |-> 6, doc |-> 16]>>,
            <<<<"_","_","r","e","d","u","c","e","_","e","x","_","_">>, [sig |-> 11, doc |-> 16]>>,
            <<<<"_","_","r","e","p","r","_","_">>, [sig |-> 6, doc |-> 32]>>,
            <<<<"_","_","r","m","o","d","_","_">>, [sig |-> 1, doc |-> 33]>>,
            <<<<"_","_","r","m","u","l","_","_">>, [sig |-> 1, doc |-> 34]>>,
            <<<<"_","_","r","o","r","_","_">>, [sig |-> 10, doc |-> 35]>>,
            <<<<"_","_","s","e","t","a","t","t","r","_","_">>, [sig |-> 12, doc |-> 36]>>,
            <<<<"_","_","s","i","z","e","o","f","_","_">>, [sig |-> 6, doc |-> 138]>>,
            <<<<"_","_","s","t","r","_","_">>, [sig |-> 6, doc |-> 38]>>,
            <<<<"_","_","s","u","b","c","l","a","s","s","c","h","e","c","k","_","_">>, [sig |-> 13, doc |-> 39]>>,
            <<<<"_","_","s","u","b","c","l","a","s","s","e","s","_","_">>, [sig |-> 2, doc |-> 40]>>,
            <<<<"_","_","s","u","b","c","l","a","s","s","h","o","o","k","_","_">>, [sig |-> 0, doc |-> 41]>>,
            <<<<"_","_","t","e","x","t","_","s","i","g","n","a","t","u","r","e","_","_">>, [sig |-> 0, doc |-> 0]>>,
            <<<<"_","_","w","e","a","k","r","e","f","o","f","f","s","e","t","_","_">>, [sig |-> 0, doc |-> 4]>>,
            <<<<"c","a","p","i","t","a","l","i","z","e">>, [sig |-> 0, doc |-> 206]>>,
            <<<<"c","e","n","t","e","r">>, [sig |-> 41, doc |-> 207]>>,
            <<<<"c","o","u","n","t">>, [sig |-> 0, doc |-> 208]>>,
            <<<<"d","e","c","o","d","e">>, [sig |-> 15, doc |-> 209]>>,
            <<<<"e","n","d","s","w","i","t","h">>, [sig |-> 0, doc |-> 210]>>,
            <<<<"e","x","p","a","n","d","t","a","b","s">>, [sig |-> 16, doc |-> 48]>>,
            <<<<"f","i","n","d">>, [sig |-> 0, doc |-> 211]>>,
            <<<<"f","r","o","m","h","e","x">>, [sig |-> 32, doc |-> 212]>>,
            <<<<"h","e","x">>, [sig |-> 0, doc |-> 213]>>,
            <<<<"i","n","d","e","x">>, [sig |-> 0, doc |-> 214]>>,
            <<<<"i","s","a","l","n","u","m">>, [sig |-> 0, doc |-> 215]>>,
            <<<<"i","s","a","l","p","h","a">>, [sig |-> 0, doc |-> 216]>>,
            <<<<"i","s","a","s","c","i","i">>, [sig |-> 0, doc |-> 217]>>,
            <<<<"i","s","d","i","g","i","t">>, [sig |-> 0, doc |-> 218]>>,
            <<<<"i","s","l","o","w","e","r">>, [sig |-> 0, doc |-> 219]>>,
            <<<<"i","s","s","p","a","c","e">>, [sig |-> 0, doc |-> 220]>>,
            <<<<"i","s","t","i","t","l","e">>, [sig |-> 0, doc |-> 221]>>,
            <<<<"i","s","u","p","p","e","r">>, [sig |-> 0, doc |-> 222]>>,
            <<<<"j","o","i","n">>, [sig |-> 42, doc |-> 223]>>,
            <<<<"l","j","u","s","t">>, [sig |-> 41, doc |-> 224]>>,
            <<<<"l","o","w","e","r">>, [sig |-> 0, doc |-> 225]>>,
            <<<<"l","s","t","r","i","p">>, [sig |-> 43, doc |-> 226]>>,
            <<<<"m","a","k","e","t","r","a","n","s">>, [sig |-> 44, doc |-> 227]>>,
            <<<<"m","r","o">>, [sig |-> 2, doc |-> 70]>>,
            <<<<"p","a","r","t","i","t","i","o","n">>, [sig |-> 19, doc |-> 228]>>,
            <<<<"r","e","m","o","v","e","p","r","e","f","i","x">>, [sig |-> 20, doc |-> 229]>>,
            <<<<"r","e","m","o","v","e","s","u","f","f","i","x">>, [sig |-> 21, doc |-> 230]>>,
            <<<<"r","e","p","l","a","c","e">>, [sig |-> 22, doc |-> 74]>>,
            <<<<"r","f","i","n","d">>, [sig |-> 0, doc |-> 231]>>,
            <<<<"r","i","n","d","e","x">>, [sig |-> 0, doc |-> 232]>>,
            <<<<"r","j","u","s","t">>, [sig |-> 41, doc |-> 233]>>,
            <<<<"r","p","a","r","t","i","t","i","o","n">>, [sig |-> 19, doc |-> 234]>>,
            <<<<"r","s","p","l","i","t">>, [sig |-> 23, doc |-> 235]>>,
            <<<<"r","s","t","r","i","p">>, [sig |-> 43, doc |-> 236]>>,
            <<<<"s","p","l","i","t">>, [sig |-> 23, doc |-> 237]>>,
            <<<<"s","p","l","i","t","l","i","n","e","s">>, [sig |-> 24, doc |-> 238]>>,
            <<<<"s","t","a","r","t","s","w","i","t","h">>, [sig |-> 0, doc |-> 239]>>,
            <<<<"s","t","r","i","p">>, [sig |-> 43, doc |-> 240]>>,
            <<<<"s","w","a","p","c","a","s","e">>, [sig |-> 0, doc |-> 241]>>,
            <<<<"t","i","t","l","e">>, [sig |-> 0, doc |-> 242]>>,
            <<<<"t","r","a","n","s","l","a","t","e">>, [sig |-> 45, doc |-> 243]>>,
            <<<<"u","p","p","e","r">>, [sig |-> 0, doc |-> 244]>>,
            <<<<"z","f","i","l","l">>, [sig |-> 26, doc |-> 245]>> >>)]>>,
      <<<<"<class 'bytearray'>">>,
          [dir |-> <<<<"_","_","a","d","d","_","_">>, <<"_","_","a","l","l","o","c","_","_">>, <<"_","_","c","l","a",
                   "s","s","_","_">>, <<"_","_","c","o","n","t","a","i","n","s","_","_">>, <<"_",
                   "_","d","e","l","a","t","t","r","_","_">>, <<"_","_","d","e","l","i","t","e","m",
                   "_","_">>, <<"_","_","d","i","r","_","_">>, <<"_","_","d","o","c","_","_">>, <<
                   "_","_","e","q","_","_">>, <<"_","_","f","o","r","m","a","t","_","_">>, <<"_",
                   "_","g","e","_","_">>, <<"_","_","g","e","t","a","t","t","r","i","b","u","t","e",
                   "_","_">>, <<"_","_","g","e","t","i","t","e","m","_","_">>, <<"_","_","g","e",
                   "t","s","t","a","t","e","_","_">>, <<"_","_","g","t","_","_">>, <<"_","_","h",
                   "a","s","h","_","_">>, <<"_","_","i","a","d","d","_","_">>, <<"_","_","i","m",
                   "u","l","_","_">>, <<"_","_","i","n","i","t","_","_">>, <<"_","_","i","n","i",
                   "t","_","s","u","b","c","l","a","s","s","_","_">>, <<"_","_","i","t","e","r","_",
                   "_">>, <<"_","_","l","e","_","_">>, <<"_","_","l","e","n","_","_">>, <<"_","_",
                   "l","t","_","_">>, <<"_","_","m","o","d","_","_">>, <<"_","_","m","u","l","_","_"
                   >>, <<"_","_","n","e","_","_">>, <<"_","_","n","e","w","_","_">>, <<"_","_","r",
                   "e","d","u","c","e","_","_">>, <<"_","_","r","e","d","u","c","e","_","e","x","_",
                   "_">>, <<"_","_","r","e","p","r","_","_">>, <<"_","_","r","m","o","d","_","_">>, 
                   <<"_","_","r","m","u","l","_","_">>, <<"_","_","s","e","t","a","t","t","r","_",
                   "_">>, <<"_","_","s","e","t","i","t","e","m","_","_">>, <<"_","_","s","i","z",
                   "e","o","f","_","_">>, <<"_","_","s","t","r","_","_">>, <<"_","_","s","u","b",
                   "c","l","a","s","s","h","o","o","k","_","_">>, <<"a","p","p","e","n","d">>, <<
                   "c","a","p","i","t","a","l","i","z","e">>, <<"c","e","n","t","e","r">>, <<"c",
                   "l","e","a","r">>, <<"c","o","p","y">>, <<"c","o","u","n","t">>, <<"d","e","c",
                   "o","d","e">>, <<"e","n","d","s","w","i","t","h">>, <<"e","x","p","a","n","d",
                   "t","a","b","s">>, <<"e","x","t","e","n","d">>, <<"f","i","n","d">>, <<"f","r",
                   "o","m","h","e","x">>, <<"h","e","x">>, <<"i","n","d","e","x">>, <<"i","n","s",
                   "e","r","t">>, <<"i","s","a","l","n","u","m">>, <<"i","s","a","l","p","h","a">>, 
                   <<"i","s","a","s","c","i","i">>, <<"i","s","d","i","g","i","t">>, <<"i","s","l",
                   "o","w","e","r">>, <<"i","s","s","p","a","c","e">>, <<"i","s","t","i","t","l","e"
                   >>, <<"i","s","u","p","p","e","r">>, <<"j","o","i","n">>, <<"l","j","u","s","t">>
                   , <<"l","o","w","e","r">>, <<"l","s","t","r","i","p">>, <<"m","a","k","e","t",
                   "r","a","n","s">>, <<"p","a","r","t","i","t","i","o","n">>, <<"p","o","p">>, <<
                   "r","e","m","o","v","e">>, <<"r","e","m","o","v","e","p","r","e","f","i","x">>, 
                   <<"r","e","m","o","v","e","s","u","f","f","i","x">>, <<"r","e","p","l","a","c",
                   "e">>, <<"r","e","v","e","r","s","e">>, <<"r","f","i","n","d">>, <<"r","i","n",
                   "d","e","x">>, <<"r","j","u","s","t">>, <<"r","p","a","r","t","i","t","i","o","n"
                   >>, <<"r","s","p","l","i","t">>, <<"r","s","t","r","i","p">>, <<"s","p","l","i",
                   "t">>, <<"s","p","l","i","t","l","i","n","e","s">>, <<"s","t","a","r","t","s",
                   "w","i","t","h">>, <<"s","t","r","i","p">>, <<"s","w","a","p","c","a","s","e">>, 
                   <<"t","i","t","l","e">>, <<"t","r","a","n","s","l","a","t","e">>, <<"u","p","p",
                   "e","r">>, <<"z","f","i","l","l">>>>,
           callable |-> {<<"_","_","a","d","d","_","_">>, <<"_","_","a","l","l","o","c","_","_">>, <<"_","_","c","l","a",
                        "s","s","_","_">>, <<"_","_","c","o","n","t","a","i","n","s","_","_">>, <<
                        "_","_","d","e","l","a","t","t","r","_","_">>, <<"_","_","d","e","l","i",
                        "t","e","m","_","_">>, <<"_","_","d","i","r","_","_">>, <<"_","_","e","q",
                        "_","_">>, <<"_","_","f","o","r","m","a","t","_","_">>, <<"_","_","g","e",
                        "_","_">>, <<"_","_","g","e","t","a","t","t","r","i","b","u","t","e","_","_"
                        >>, <<"_","_","g","e","t","i","t","e","m","_","_">>, <<"_","_","g","e","t",
                        "s","t","a","t","e","_","_">>, <<"_","_","g","t","_","_">>, <<"_","_","i",
                        "a","d","d","_","_">>, <<"_","_","i","m","u","l","_","_">>, <<"_","_","i",
                        "n","i","t","_","_">>, <<"_","_","i","n","i","t","_","s","u","b","c","l",
                        "a","s","s","_","_">>, <<"_","_","i","t","e","r","_","_">>, <<"_","_","l",
                        "e","_","_">>, <<"_","_","l","e","n","_","_">>, <<"_","_","l","t","_","_">>
                        , <<"_","_","m","o","d","_","_">>, <<"_","_","m","u","l","_","_">>, <<"_",
                        "_","n","e","_","_">>, <<"_","_","n","e","w","_","_">>, <<"_","_","r","e",
                        "d","u","c","e","_","_">>, <<"_","_","r","e","d","u","c","e","_","e","x",
                        "_","_">>, <<"_","_","r","e","p","r","_","_">>, <<"_","_","r","m","o","d",
                        "_","_">>, <<"_","_","r","m","u","l","_","_">>, <<"_","_","s","e","t","a",
                        "t","t","r","_","_">>, <<"_","_","s","e","t","i","t","e","m","_","_">>, <<
                        "_","_","s","i","z","e","o","f","_","_">>, <<"_","_","s","t","r","_","_">>, 
                        <<"_","_","s","u","b","c","l","a","s","s","h","o","o","k","_","_">>, <<"a",
                        "p","p","e","n","d">>, <<"c","a","p","i","t","a","l","i","z","e">>, <<"c",
                        "e","n","t","e","r">>, <<"c","l","e","a","r">>, <<"c","o","p","y">>, <<"c",
                        "o","u","n","t">>, <<"d","e","c","o","d","e">>, <<"e","n","d","s","w","i",
                        "t","h">>, <<"e","x","p","a","n","d","t","a","b","s">>, <<"e","x","t","e",
                        "n","d">>, <<"f","i","n","d">>, <<"f","r","o","m","h","e","x">>, <<"h","e",
                        "x">>, <<"i","n","d","e","x">>, <<"i","n","s","e","r","t">>, <<"i","s","a",
                        "l","n","u","m">>, <<"i","s","a","l","p","h","a">>, <<"i","s","a","s","c",
                        "i","i">>, <<"i","s","d","i","g","i","t">>, <<"i","s","l","o","w","e","r">>
                        , <<"i","s","s","p","a","c","e">>, <<"i","s","t","i","t","l","e">>, <<"i",
                        "s","u","p","p","e","r">>, <<"j","o","i","n">>, <<"l","j","u","s","t">>, <<
                        "l","o","w","e","r">>, <<"l","s","t","r","i","p">>, <<"m","a","k","e","t",
                        "r","a","n","s">>, <<"p","a","r","t","i","t","i","o","n">>, <<"p","o","p">>
                        , <<"r","e","m","o","v","e">>, <<"r","e","m","o","v","e","p","r","e","f",
                        "i","x">>, <<"r","e","m","o","v","e","s","u","f","f","i","x">>, <<"r","e",
                        "p","l","a","c","e">>, <<"r","e","v","e","r","s","e">>, <<"r","f","i","n",
                        "d">>, <<"r","i","n","d","e","x">>, <<"r","j","u","s","t">>, <<"r","p","a",
                        "r","t","i","t","i","o","n">>, <<"r","s","p","l","i","t">>, <<"r","s","t",
                        "r","i","p">>, <<"s","p","l","i","t">>, <<"s","p","l","i","t","l","i","n",
                        "e","s">>, <<"s","t","a","r","t","s","w","i","t","h">>, <<"s","t","r","i",
                        "p">>, <<"s","w","a","p","c","a","s","e">>, <<"t","i","t","l","e">>, <<"t",
                        "r","a","n","s","l","a","t","e">>, <<"u","p","p","e","r">>, <<"z","f","i",
                        "l","l">>},
           attrs |-> DictOf(<<
            <<<<"_","_","a","d","d","_","_">>, [sig |-> 1, doc |-> 1]>>,
            <<<<"_","_","a","l","l","o","c","_","_">>, [sig |-> 0, doc |-> 246]>>,
            <<<<"_","_","b","a","s","e","_","_">>, [sig |-> 2, doc |-> 2]>>,
            <<<<"_","_","b","a","s","e","s","_","_">>, [sig |-> 0, doc |-> 3]>>,
            <<<<"_","_","b","a","s","i","c","s","i","z","e","_","_">>, [sig |-> 0, doc |-> 4]>>,
            <<<<"_","_","c","a","l","l","_","_">>, [sig |-> 3, doc |-> 5]>>,
            <<<<"_","_","c","l","a","s","s","_","_">>, [sig |-> 0, doc |-> 6]>>,
            <<<<"_","_","c","o","n","t","a","i","n","s","_","_">>, [sig |-> 4, doc |-> 7]>>,
            <<<<"_","_","d","e","l","a","t","t","r","_","_">>, [sig |-> 5, doc |-> 8]>>,
            <<<<"_","_","d","e","l","i","t","e","m","_","_">>, [sig |-> 4, doc |-> 149]>>,
            <<<<"_","_","d","i","c","t","_","_">>, [sig |-> 0, doc |-> 0]>>,
            <<<<"_","_","d","i","c","t","o","f","f","s","e","t","_","_">>, [sig |-> 0, doc |-> 4]>>,
            <<<<"_","_","d","i","r","_","_">>, [sig |-> 6, doc |-> 9]>>,
            <<<<"_","_","d","o","c","_","_">>, [sig |-> 0, doc |-> 10]>>,
            <<<<"_","_","e","q","_","_">>, [sig |-> 1, doc |-> 11]>>,
            <<<<"_","_","f","l","a","g","s","_","_">>, [sig |-> 0, doc |-> 4]>>,
            <<<<"_","_","f","o","r","m","a","t","_","_">>, [sig |-> 7, doc |-> 98]>>,
            <<<<"_","_","g","e","_","_">>, [sig |-> 1, doc |-> 13]>>,
            <<<<"_","_","g","e","t","a","t","t","r","i","b","u","t","e","_","_">>, [sig |-> 5, doc |-> 14]>>,
            <<<<"_","_","g","e","t","i","t","e","m","_","_">>, [sig |-> 4, doc |-> 15]>>,
            <<<<"_","_","g","e","t","s","t","a","t","e","_","_">>, [sig |-> 6, doc |-> 16]>>,
            <<<<"_","_","g","t","_","_">>, [sig |-> 1, doc |-> 17]>>,
            <<<<"_","_","h","a","s","h","_","_">>, [sig |-> 0, doc |-> 0]>>,
            <<<<"_","_","i","a","d","d","_","_">>, [sig |-> 1, doc |-> 151]>>,
            <<<<"_","_","i","m","u","l","_","_">>, [sig |-> 1, doc |-> 152]>>,
            <<<<"_","_","i","n","i","t","_","_">>, [sig |-> 8, doc |-> 19]>>,
            <<<<"_","_","i","n","i","t","_","s","u","b","c","l","a","s","s","_","_">>, [sig |-> 0, doc |-> 20]>>,
            <<<<"_","_","i","n","s","t","a","n","c","e","c","h","e","c","k","_","_">>, [sig |-> 9, doc |-> 21]>>,
            <<<<"_","_","i","t","e","m","s","i","z","e","_","_">>, [sig |-> 0, doc |-> 4]>>,
            <<<<"_","_","i","t","e","r","_","_">>, [sig |-> 6, doc |-> 22]>>,
            <<<<"_","_","l","e","_","_">>, [sig |-> 1, doc |-> 23]>>,
            <<<<"_","_","l","e","n","_","_">>, [sig |-> 6, doc |-> 24]>>,
            <<<<"_","_","l","t","_","_">>, [sig |-> 1, doc |-> 25]>>,
            <<<<"_","_","m","o","d","_","_">>, [sig |-> 1, doc |-> 26]>>,
            <<<<"_","_","m","o","d","u","l","e","_","_">>, [sig |-> 0, doc |-> 10]>>,
            <<<<"_","_","m","r","o","_","_">>, [sig |-> 0, doc |-> 3]>>,
            <<<<"_","_","m","u","l","_","_">>, [sig |-> 1, doc |-> 27]>>,
            <<<<"_","_","n","a","m","e","_","_">>, [sig |-> 0, doc |-> 10]>>,
            <<<<"_","_","n","e","_","_">>, [sig |-> 1, doc |-> 28]>>,
            <<<<"_","_","n","e","w","_","_">>, [sig |-> 3, doc |-> 29]>>,
            <<<<"_","_","o","r","_","_">>, [sig |-> 10, doc |-> 30]>>,
            <<<<"_","_","p","r","e","p","a","r","e","_","_">>, [sig |-> 0, doc |-> 31]>>,
            <<<<"_","_","q","u","a","l","n","a","m","e","_","_">>, [sig |-> 0, doc |-> 10]>>,
            <<<<"_","_","r","e","d","u","c","e","_","_">>, [sig |-> 6, doc |-> 186]>>,
            <<<<"_","_","r","e","d","u","c","e","_","e","x","_","_">>, [sig |-> 46, doc |-> 186]>>,
            <<<<"_","_","r","e","p","r","_","_">>, [sig |-> 6, doc |-> 32]>>,
            <<<<"_","_","r","m","o","d","_","_">>, [sig |-> 1, doc |-> 33]>>,
            <<<<"_","_","r","m","u","l","_","_">>, [sig |-> 1, doc |-> 34]>>,
            <<<<"_","_","r","o","r","_","_">>, [sig |-> 10, doc |-> 35]>>,
            <<<<"_","_","s","e","t","a","t","t","r","_","_">>, [sig |-> 12, doc |-> 36]>>,
            <<<<"_","_","s","e","t","i","t","e","m","_","_">>, [sig |-> 33, doc |-> 154]>>,
            <<<<"_","_","s","i","z","e","o","f","_","_">>, [sig |-> 6, doc |-> 247]>>,
            <<<<"_","_","s","t","r","_","_">>, [sig |-> 6, doc |-> 38]>>,
            <<<<"_","_","s","u","b","c","l","a","s","s","c","h","e","c","k","_","_">>, [sig |-> 13, doc |-> 39]>>,
            <<<<"_","_","s","u","b","c","l","a","s","s","e","s","_","_">>, [sig |-> 2, doc |-> 40]>>,
            <<<<"_","_","s","u","b","c","l","a","s","s","h","o","o","k","_","_">>, [sig |-> 0, doc |-> 41]>>,
            <<<<"_","_","t","e","x","t","_","s","i","g","n","a","t","u","r","e","_","_">>, [sig |-> 0, doc |-> 0]>>,
            <<<<"_","_","w","e","a","k","r","e","f","o","f","f","s","e","t","_","_">>, [sig |-> 0, doc |-> 4]>>,
            <<<<"a","p","p","e","n","d">>, [sig |-> 47, doc |-> 248]>>,
            <<<<"c","a","p","i","t","a","l","i","z","e">>, [sig |-> 0, doc |-> 206]>>,
            <<<<"c","e","n","t","e","r">>, [sig |-> 41, doc |-> 207]>>,
            <<<<"c","l","e","a","r">>, [sig |-> 6, doc |-> 249]>>,
            <<<<"c","o","p","y">>, [sig |-> 6, doc |-> 250]>>,
            <<<<"c","o","u","n","t">>, [sig |-> 0, doc |-> 208]>>,
            <<<<"d","e","c","o","d","e">>, [sig |-> 15, doc |-> 251]>>,
            <<<<"e","n","d","s","w","i","t","h">>, [sig |-> 0, doc |-> 210]>>,
            <<<<"e","x","p","a","n","d","t","a","b","s">>, [sig |-> 16, doc |-> 48]>>,
            <<<<"e","x","t","e","n","d">>, [sig |-> 48, doc |-> 252]>>,
            <<<<"f","i","n","d">>, [sig |-> 0, doc |-> 211]>>,
            <<<<"f","r","o","m","h","e","x">>, [sig |-> 32, doc |-> 253]>>,
            <<<<"h","e","x">>, [sig |-> 0, doc |-> 254]>>,
            <<<<"i","n","d","e","x">>, [sig |-> 0, doc |-> 214]>>,
            <<<<"i","n","s","e","r","t">>, [sig |-> 49, doc |-> 255]>>,
            <<<<"i","s","a","l","n","u","m">>, [sig |-> 0, doc |-> 215]>>,
            <<<<"i","s","a","l","p","h","a">>, [sig |-> 0, doc |-> 216]>>,
            <<<<"i","s","a","s","c","i","i">>, [sig |-> 0, doc |-> 217]>>,
            <<<<"i","s","d","i","g","i","t">>, [sig |-> 0, doc |-> 218]>>,
            <<<<"i","s","l","o","w","e","r">>, [sig |-> 0, doc |-> 219]>>,
            <<<<"i","s","s","p","a","c","e">>, [sig |-> 0, doc |-> 220]>>,
            <<<<"i","s","t","i","t","l","e">>, [sig |-> 0, doc |-> 221]>>,
            <<<<"i","s","u","p","p","e","r">>, [sig |-> 0, doc |-> 222]>>,
            <<<<"j","o","i","n">>, [sig |-> 42, doc |-> 256]>>,
            <<<<"l","j","u","s","t">>, [sig |-> 41, doc |-> 224]>>,
            <<<<"l","o","w","e","r">>, [sig |-> 0, doc |-> 225]>>,
            <<<<"l","s","t","r","i","p">>, [sig |-> 43, doc |-> 257]>>,
            <<<<"m","a","k","e","t","r","a","n","s">>, [sig |-> 44, doc |-> 227]>>,
            <<<<"m","r","o">>, [sig |-> 2, doc |-> 70]>>,
            <<<<"p","a","r","t","i","t","i","o","n">>, [sig |-> 19, doc |-> 258]>>,
            <<<<"p","o","p">>, [sig |-> 37, doc |-> 259]>>,
            <<<<"r","e","m","o","v","e">>, [sig |-> 1, doc |-> 260]>>,
            <<<<"r","e","m","o","v","e","p","r","e","f","i","x">>, [sig |-> 20, doc |-> 261]>>,
            <<<<"r","e","m","o","v","e","s","u","f","f","i","x">>, [sig |-> 21, doc |-> 262]>>,
            <<<<"r","e","p","l","a","c","e">>, [sig |-> 22, doc |-> 74]>>,
            <<<<"r","e","v","e","r","s","e">>, [sig |-> 6, doc |-> 263]>>,
            <<<<"r","f","i","n","d">>, [sig |-> 0, doc |-> 231]>>,
            <<<<"r","i","n","d","e","x">>, [sig |-> 0, doc |-> 232]>>,
            <<<<"r","j","u","s","t">>, [sig |-> 41, doc |-> 233]>>,
            <<<<"r","p","a","r","t","i","t","i","o","n">>, [sig |-> 19, doc |-> 264]>>,
            <<<<"r","s","p","l","i","t">>, [sig |-> 23, doc |-> 265]>>,
            <<<<"r","s","t","r","i","p">>, [sig |-> 43, doc |-> 236]>>,
            <<<<"s","p","l","i","t">>, [sig |-> 23, doc |-> 266]>>,
            <<<<"s","p","l","i","t","l","i","n","e","s">>, [sig |-> 24, doc |-> 267]>>,
            <<<<"s","t","a","r","t","s","w","i","t","h">>, [sig |-> 0, doc |-> 239]>>,
            <<<<"s","t","r","i","p">>, [sig |-> 43, doc |-> 240]>>,
            <<<<"s","w","a","p","c","a","s","e">>, [sig |-> 0, doc |-> 241]>>,
            <<<<"t","i","t","l","e">>, [sig |-> 0, doc |-> 242]>>,
            <<<<"t","r","a","n","s","l","a","t","e">>, [sig |-> 45, doc |-> 243]>>,
            <<<<"u","p","p","e","r">>, [sig |-> 0, doc |-> 244]>>,
            <<<<"z","f","i","l","l">>, [sig |-> 26, doc |-> 245]>> >>)]>>,
      <<<<"<class 'memoryview'>">>,
          [dir |-> <<<<"_","_","c","l","a","s","s","_","_">>, <<"_","_","d","e","l","a","t","t","r","_","_">>, <<"_",
                   "_","d","e","l","i","t","e","m","_","_">>, <<"_","_","d","i","r","_","_">>, <<
                   "_","_","d","o","c","_","_">>, <<"_","_","e","n","t","e","r","_","_">>, <<"_",
                   "_","e","q","_","_">>, <<"_","_","e","x","i","t","_","_">>, <<"_","_","f","o",
                   "r","m","a","t","_","_">>, <<"_","_","g","e","_","_">>, <<"_","_","g","e","t",
                   "a","t","t","r","i","b","u","t","e","_","_">>, <<"_","_","g","e","t","i","t","e",
                   "m","_","_">>, <<"_","_","g","e","t","s","t","a","t","e","_","_">>, <<"_","_",
                   "g","t","_","_">>, <<"_","_","h","a","s","h","_","_">>, <<"_","_","i","n","i",
                   "t","_","_">>, <<"_","_","i","n","i","t","_","s","u","b","c","l","a","s","s","_",
                   "_">>, <<"_","_","i","t","e","r","_","_">>, <<"_","_","l","e","_","_">>, <<"_",
                   "_","l","e","n","_","_">>, <<"_","_","l","t","_","_">>, <<"_","_","n","e","_","_"
                   >>, <<"_","_","n","e","w","_","_">>, <<"_","_","r","e","d","u","c","e","_","_">>
                   , <<"_","_","r","e","d","u","c","e","_","e","x","_","_">>, <<"_","_","r","e","p",
                   "r","_","_">>, <<"_","_","s","e","t","a","t","t","r","_","_">>, <<"_","_","s",
                   "e","t","i","t","e","m","_","_">>, <<"_","_","s","i","z","e","o","f","_","_">>, 
                   <<"_","_","s","t","r","_","_">>, <<"_","_","s","u","b","c","l","a","s","s","h",
                   "o","o","k","_","_">>, <<"c","_","c","o","n","t","i","g","u","o","u","s">>, <<
                   "c","a","s","t">>, <<"c","o","n","t","i","g","u","o","u","s">>, <<"f","_","c",
                   "o","n","t","i","g","u","o","u","s">>, <<"f","o","r","m","a","t">>, <<"h","e","x"
                   >>, <<"i","t","e","m","s","i","z","e">>, <<"n","b","y","t","e","s">>, <<"n","d",
                   "i","m">>, <<"o","b","j">>, <<"r","e","a","d","o","n","l","y">>, <<"r","e","l",
                   "e","a","s","e">>, <<"s","h","a","p","e">>, <<"s","t","r","i","d","e","s">>, <<
                   "s","u","b","o","f","f","s","e","t","s">>, <<"t","o","b","y","t","e","s">>, <<
                   "t","o","l","i","s","t">>, <<"t","o","r","e","a","d","o","n","l","y">>>>,
           callable |-> {<<"_","_","c","l","a","s","s","_","_">>, <<"_","_","d","e","l","a","t","t","r","_","_">>, <<"_",
                        "_","d","e","l","i","t","e","m","_","_">>, <<"_","_","d","i","r","_","_">>, 
                        <<"_","_","e","n","t","e","r","_","_">>, <<"_","_","e","q","_","_">>, <<"_",
                        "_","e","x","i","t","_","_">>, <<"_","_","f","o","r","m","a","t","_","_">>, 
                        <<"_","_","g","e","_","_">>, <<"_","_","g","e","t","a","t","t","r","i","b",
                        "u","t","e","_","_">>, <<"_","_","g","e","t","i","t","e","m","_","_">>, <<
                        "_","_","g","e","t","s","t","a","t","e","_","_">>, <<"_","_","g","t","_","_"
                        >>, <<"_","_","h","a","s","h","_","_">>, <<"_","_","i","n","i","t","_","_">>
                        , <<"_","_","i","n","i","t","_","s","u","b","c","l","a","s","s","_","_">>, 
                        <<"_","_","i","t","e","r","_","_">>, <<"_","_","l","e","_","_">>, <<"_","_",
                        "l","e","n","_","_">>, <<"_","_","l","t","_","_">>, <<"_","_","n","e","_",
                        "_">>, <<"_","_","n","e","w","_","_">>, <<"_","_","r","e","d","u","c","e",
                        "_","_">>, <<"_","_","r","e","d","u","c","e","_","e","x","_","_">>, <<"_",
                        "_","r","e","p","r","_","_">>, <<"_","_","s","e","t","a","t","t","r","_","_"
                        >>, <<"_","_","s","e","t","i","t","e","m","_","_">>, <<"_","_","s","i","z",
                        "e","o","f","_","_">>, <<"_","_","s","t","r","_","_">>, <<"_","_","s","u",
                        "b","c","l","a","s","s","h","o","o","k","_","_">>, <<"c","a","s","t">>, <<
                        "h","e","x">>, <<"r","e","l","e","a","s","e">>, <<"t","o","b","y","t","e",
                        "s">>, <<"t","o","l","i","s","t">>, <<"t","o","r","e","a","d","o","n","l",
                        "y">>},
           attrs |-> DictOf(<<
            <<<<"_","_","b","a","s","e","_","_">>, [sig |-> 2, doc |-> 2]>>,
            <<<<"_","_","b","a","s","e","s","_","_">>, [sig |-> 0, doc |-> 3]>>,
            <<<<"_","_","b","a","s","i","c","s","i","z","e","_","_">>, [sig |-> 0, doc |-> 4]>>,
            <<<<"_","_","c","a","l","l","_","_">>, [sig |-> 3, doc |-> 5]>>,
            <<<<"_","_","c","l","a","s","s","_","_">>, [sig |-> 0, doc |-> 6]>>,
            <<<<"_","_","d","e","l","a","t","t","r","_","_">>, [sig |-> 5, doc |-> 8]>>,
            <<<<"_","_","d","e","l","i","t","e","m","_","_">>, [sig |-> 4, doc |-> 149]>>,
            <<<<"_","_","d","i","c","t","_","_">>, [sig |-> 0, doc |-> 0]>>,
            <<<<"_","_","d","i","c","t","o","f","f","s","e","t","_","_">>, [sig |-> 0, doc |-> 4]>>,
            <<<<"_","_","d","i","r","_","_">>, [sig |-> 6, doc |-> 9]>>,
            <<<<"_","_","d","o","c","_","_">>, [sig |-> 0, doc |-> 10]>>,
            <<<<"_","_","e","n","t","e","r","_","_">>, [sig |-> 0, doc |-> 0]>>,
            <<<<"_","_","e","q","_","_">>, [sig |-> 1, doc |-> 11]>>,
            <<<<"_","_","e","x","i","t","_","_">>, [sig |-> 0, doc |-> 0]>>,
            <<<<"_","_","f","l","a","g","s","_","_">>, [sig |-> 0, doc |-> 4]>>,
            <<<<"_","_","f","o","r","m","a","t","_","_">>, [sig |-> 7, doc |-> 98]>>,
            <<<<"_","_","g","e","_","_">>, [sig |-> 1, doc |-> 13]>>,
            <<<<"_","_","g","e","t","a","t","t","r","i","b","u","t","e","_","_">>, [sig |-> 5, doc |-> 14]>>,
            <<<<"_","_","g","e","t","i","t","e","m","_","_">>, [sig |-> 4, doc |-> 15]>>,
            <<<<"_","_","g","e","t","s","t","a","t","e","_","_">>, [sig |-> 6, doc |-> 16]>>,
            <<<<"_","_","g","t","_","_">>, [sig |-> 1, doc |-> 17]>>,
            <<<<"_","_","h","a","s","h","_","_">>, [sig |-> 6, doc |-> 18]>>,
            <<<<"_","_","i","n","i","t","_","_">>, [sig |-> 8, doc |-> 19]>>,
            <<<<"_","_","i","n","i","t","_","s","u","b","c","l","a","s","s","_","_">>, [sig |-> 0, doc |-> 20]>>,
            <<<<"_","_","i","n","s","t","a","n","c","e","c","h","e","c","k","_","_">>, [sig |-> 9, doc |-> 21]>>,
            <<<<"_","_","i","t","e","m","s","i","z","e","_","_">>, [sig |-> 0, doc |-> 4]>>,
            <<<<"_","_","i","t","e","r","_","_">>, [sig |-> 6, doc |-> 22]>>,
            <<<<"_","_","l","e","_","_">>, [sig |-> 1, doc |-> 23]>>,
            <<<<"_","_","l","e","n","_","_">>, [sig |-> 6, doc |-> 24]>>,
            <<<<"_","_","l","t","_","_">>, [sig |-> 1, doc |-> 25]>>,
            <<<<"_","_","m","o","d","u","l","e","_","_">>, [sig |-> 0, doc |-> 10]>>,
            <<<<"_","_","m","r","o","_","_">>, [sig |-> 0, doc |-> 3]>>,
            <<<<"_","_","n","a","m","e","_","_">>, [sig |-> 0, doc |-> 10]>>,
            <<<<"_","_","n","e","_","_">>, [sig |-> 1, doc |-> 28]>>,
            <<<<"_","_","n","e","w","_","_">>, [sig |-> 3, doc |-> 29]>>,
            <<<<"_","_","o","r","_","_">>, [sig |-> 10, doc |-> 30]>>,
            <<<<"_","_","p","r","e","p","a","r","e","_","_">>, [sig |-> 0, doc |-> 31]>>,
            <<<<"_","_","q","u","a","l","n","a","m","e","_","_">>, [sig |-> 0, doc |-> 10]>>,
            <<<<"_","_","r","e","d","u","c","e","_","_">>, [sig |-> 6, doc |-> 16]>>,
            <<<<"_","_","r","e","d","u","c","e","_","e","x","_","_">>, [sig |-> 11, doc |-> 16]>>,
            <<<<"_","_","r","e","p","r","_","_">>, [sig |-> 6, doc |-> 32]>>,
            <<<<"_","_","r","o","r","_","_">>, [sig |-> 10, doc |-> 35]>>,
            <<<<"_","_","s","e","t","a","t","t","r","_","_">>, [sig |-> 12, doc |-> 36]>>,
            <<<<"_","_","s","e","t","i","t","e","m","_","_">>, [sig |-> 33, doc |-> 154]>>,
            <<<<"_","_","s","i","z","e","o","f","_","_">>, [sig |-> 6, doc |-> 138]>>,
            <<<<"_","_","s","t","r","_","_">>, [sig |-> 6, doc |-> 38]>>,
            <<<<"_","_","s","u","b","c","l","a","s","s","c","h","e","c","k","_","_">>, [sig |-> 13, doc |-> 39]>>,
            <<<<"_","_","s","u","b","c","l","a","s","s","e","s","_","_">>, [sig |-> 2, doc |-> 40]>>,
            <<<<"_","_","s","u","b","c","l","a","s","s","h","o","o","k","_","_">>, [sig |-> 0, doc |-> 41]>>,
            <<<<"_","_","t","e","x","t","_","s","i","g","n","a","t","u","r","e","_","_">>, [sig |-> 0, doc |-> 10]>>,
            <<<<"_","_","w","e","a","k","r","e","f","o","f","f","s","e","t","_","_">>, [sig |-> 0, doc |-> 4]>>,
            <<<<"c","_","c","o","n","t","i","g","u","o","u","s">>, [sig |-> 0, doc |-> 268]>>,
            <<<<"c","a","s","t">>, [sig |-> 0, doc |-> 269]>>,
            <<<<"c","o","n","t","i","g","u","o","u","s">>, [sig |-> 0, doc |-> 270]>>,
            <<<<"f","_","c","o","n","t","i","g","u","o","u","s">>, [sig |-> 0, doc |-> 271]>>,
            <<<<"f","o","r","m","a","t">>, [sig |-> 0, doc |-> 272]>>,
            <<<<"h","e","x">>, [sig |-> 0, doc |-> 273]>>,
            <<<<"i","t","e","m","s","i","z","e">>, [sig |-> 0, doc |-> 274]>>,
            <<<<"m","r","o">>, [sig |-> 2, doc |-> 70]>>,
            <<<<"n","b","y","t","e","s">>, [sig |-> 0, doc |-> 275]>>,
            <<<<"n","d","i","m">>, [sig |-> 0, doc |-> 276]>>,
            <<<<"o","b","j">>, [sig |-> 0, doc |-> 277]>>,
            <<<<"r","e","a","d","o","n","l","y">>, [sig |-> 0, doc |-> 278]>>,
            <<<<"r","e","l","e","a","s","e">>, [sig |-> 6, doc |-> 279]>>,
            <<<<"s","h","a","p","e">>, [sig |-> 0, doc |-> 280]>>,
            <<<<"s","t","r","i","d","e","s">>, [sig |-> 0, doc |-> 281]>>,
            <<<<"s","u","b","o","f","f","s","e","t","s">>, [sig |-> 0, doc |-> 282]>>,
            <<<<"t","o","b","y","t","e","s">>, [sig |-> 50, doc |-> 283]>>,
            <<<<"t","o","l","i","s","t">>, [sig |-> 6, doc |-> 284]>>,
            <<<<"t","o","r","e","a","d","o","n","l","y">>, [sig |-> 6, doc |-> 285]>> >>)]>>,
      <<<<"<class 'range'>">>,
          [dir |-> <<<<"_","_","b","o","o","l","_","_">>, <<"_","_","c","l","a","s","s","_","_">>, <<"_","_","c","o",
                   "n","t","a","i","n","s","_","_">>, <<"_","_","d","e","l","a","t","t","r","_","_"
                   >>, <<"_","_","d","i","r","_","_">>, <<"_","_","d","o","c","_","_">>, <<"_","_",
                   "e","q","_","_">>, <<"_","_","f","o","r","m","a","t","_","_">>, <<"_","_","g",
                   "e","_","_">>, <<"_","_","g","e","t","a","t","t","r","i","b","u","t","e","_","_"
                   >>, <<"_","_","g","e","t","i","t","e","m","_","_">>, <<"_","_","g","e","t","s",
                   "t","a","t","e","_","_">>, <<"_","_","g","t","_","_">>, <<"_","_","h","a","s",
                   "h","_","_">>, <<"_","_","i","n","i","t","_","_">>, <<"_","_","i","n","i","t",
                   "_","s","u","b","c","l","a","s","s","_","_">>, <<"_","_","i","t","e","r","_","_"
                   >>, <<"_","_","l","e","_","_">>, <<"_","_","l","e","n","_","_">>, <<"_","_","l",
                   "t","_","_">>, <<"_","_","n","e","_","_">>, <<"_","_","n","e","w","_","_">>, <<
                   "_","_","r","e","d","u","c","e","_","_">>, <<"_","_","r","e","d","u","c","e","_",
                   "e","x","_","_">>, <<"_","_","r","e","p","r","_","_">>, <<"_","_","r","e","v",
                   "e","r","s","e","d","_","_">>, <<"_","_","s","e","t","a","t","t","r","_","_">>, 
                   <<"_","_","s","i","z","e","o","f","_","_">>, <<"_","_","s","t","r","_","_">>, <<
                   "_","_","s","u","b","c","l","a","s","s","h","o","o","k","_","_">>, <<"c","o","u",
                   "n","t">>, <<"i","n","d","e","x">>, <<"s","t","a","r","t">>, <<"s","t","e","p">>
                   , <<"s","t","o","p">>>>,
           callable |-> {<<"_","_","b","o","o","l","_","_">>, <<"_","_","c","l","a","s","s","_","_">>, <<"_","_","c","o",
                        "n","t","a","i","n","s","_","_">>, <<"_","_","d","e","l","a","t","t","r",
                        "_","_">>, <<"_","_","d","i","r","_","_">>, <<"_","_","e","q","_","_">>, <<
                        "_","_","f","o","r","m","a","t","_","_">>, <<"_","_","g","e","_","_">>, <<
                        "_","_","g","e","t","a","t","t","r","i","b","u","t","e","_","_">>, <<"_",
                        "_","g","e","t","i","t","e","m","_","_">>, <<"_","_","g","e","t","s","t",
                        "a","t","e","_","_">>, <<"_","_","g","t","_","_">>, <<"_","_","h","a","s",
                        "h","_","_">>, <<"_","_","i","n","i","t","_","_">>, <<"_","_","i","n","i",
                        "t","_","s","u","b","c","l","a","s","s","_","_">>, <<"_","_","i","t","e",
                        "r","_","_">>, <<"_","_","l","e","_","_">>, <<"_","_","l","e","n","_","_">>
                        , <<"_","_","l","t","_","_">>, <<"_","_","n","e","_","_">>, <<"_","_","n",
                        "e","w","_","_">>, <<"_","_","r","e","d","u","c","e","_","_">>, <<"_","_",
                        "r","e","d","u","c","e","_","e","x","_","_">>, <<"_","_","r","e","p","r",
                        "_","_">>, <<"_","_","r","e","v","e","r","s","e","d","_","_">>, <<"_","_",
                        "s","e","t","a","t","t","r","_","_">>, <<"_","_","s","i","z","e","o","f",
                        "_","_">>, <<"_","_","s","t","r","_","_">>, <<"_","_","s","u","b","c","l",
                        "a","s","s","h","o","o","k","_","_">>, <<"c","o","u","n","t">>, <<"i","n",
                        "d","e","x">>},
           attrs |-> DictOf(<<
            <<<<"_","_","b","a","s","e","_","_">>, [sig |-> 2, doc |-> 2]>>,
            <<<<"_","_","b","a","s","e","s","_","_">>, [sig |-> 0, doc |-> 3]>>,
            <<<<"_","_","b","a","s","i","c","s","i","z","e","_","_">>, [sig |-> 0, doc |-> 4]>>,
            <<<<"_","_","b","o","o","l","_","_">>, [sig |-> 6, doc |-> 92]>>,
            <<<<"_","_","c","a","l","l","_","_">>, [sig |-> 3, doc |-> 5]>>,
            <<<<"_","_","c","l","a","s","s","_","_">>, [sig |-> 0, doc |-> 6]>>,
            <<<<"_","_","c","o","n","t","a","i","n","s","_","_">>, [sig |-> 4, doc |-> 7]>>,
            <<<<"_","_","d","e","l","a","t","t","r","_","_">>, [sig |-> 5, doc |-> 8]>>,
            <<<<"_","_","d","i","c","t","_","_">>, [sig |-> 0, doc |-> 0]>>,
            <<<<"_","_","d","i","c","t","o","f","f","s","e","t","_","_">>, [sig |-> 0, doc |-> 4]>>,
            <<<<"_","_","d","i","r","_","_">>, [sig |-> 6, doc |-> 9]>>,
            <<<<"_","_","d","o","c","_","_">>, [sig |-> 0, doc |-> 10]>>,
            <<<<"_","_","e","q","_","_">>, [sig |-> 1, doc |-> 11]>>,
            <<<<"_","_","f","l","a","g","s","_","_">>, [sig |-> 0, doc |-> 4]>>,
            <<<<"_","_","f","o","r","m","a","t","_","_">>, [sig |-> 7, doc |-> 98]>>,
            <<<<"_","_","g","e","_","_">>, [sig |-> 1, doc |-> 13]>>,
            <<<<"_","_","g","e","t","a","t","t","r","i","b","u","t","e","_","_">>, [sig |-> 5, doc |-> 14]>>,
            <<<<"_","_","g","e","t","i","t","e","m","_","_">>, [sig |-> 4, doc |-> 15]>>,
            <<<<"_","_","g","e","t","s","t","a","t","e","_","_">>, [sig |-> 6, doc |-> 16]>>,
            <<<<"_","_","g","t","_","_">>, [sig |-> 1, doc |-> 17]>>,
            <<<<"_","_","h","a","s","h","_","_">>, [sig |-> 6, doc |-> 18]>>,
            <<<<"_","_","i","n","i","t","_","_">>, [sig |-> 8, doc |-> 19]>>,
            <<<<"_","_","i","n","i","t","_","s","u","b","c","l","a","s","s","_","_">>, [sig |-> 0, doc |-> 20]>>,
            <<<<"_","_","i","n","s","t","a","n","c","e","c","h","e","c","k","_","_">>, [sig |-> 9, doc |-> 21]>>,
            <<<<"_","_","i","t","e","m","s","i","z","e","_","_">>, [sig |-> 0, doc |-> 4]>>,
            <<<<"_","_","i","t","e","r","_","_">>, [sig |-> 6, doc |-> 22]>>,
            <<<<"_","_","l","e","_","_">>, [sig |-> 1, doc |-> 23]>>,
            <<<<"_","_","l","e","n","_","_">>, [sig |-> 6, doc |-> 24]>>,
            <<<<"_","_","l","t","_","_">>, [sig |-> 1, doc |-> 25]>>,
            <<<<"_","_","m","o","d","u","l","e","_","_">>, [sig |-> 0, doc |-> 10]>>,
            <<<<"_","_","m","r","o","_","_">>, [sig |-> 0, doc |-> 3]>>,
            <<<<"_","_","n","a","m","e","_","_">>, [sig |-> 0, doc |-> 10]>>,
            <<<<"_","_","n","e","_","_">>, [sig |-> 1, doc |-> 28]>>,
            <<<<"_","_","n","e","w","_","_">>, [sig |-> 3, doc |-> 29]>>,
            <<<<"_","_","o","r","_","_">>, [sig |-> 10, doc |-> 30]>>,
            <<<<"_","_","p","r","e","p","a","r","e","_","_">>, [sig |-> 0, doc |-> 31]>>,
            <<<<"_","_","q","u","a","l","n","a","m","e","_","_">>, [sig |-> 0, doc |-> 10]>>,
            <<<<"_","_","r","e","d","u","c","e","_","_">>, [sig |-> 0, doc |-> 16]>>,
            <<<<"_","_","r","e","d","u","c","e","_","e","x","_","_">>, [sig |-> 11, doc |-> 16]>>,
            <<<<"_","_","r","e","p","r","_","_">>, [sig |-> 6, doc |-> 32]>>,
            <<<<"_","_","r","e","v","e","r","s","e","d","_","_">>, [sig |-> 0, doc |-> 286]>>,
            <<<<"_","_","r","o","r","_","_">>, [sig |-> 10, doc |-> 35]>>,
            <<<<"_","_","s","e","t","a","t","t","r","_","_">>, [sig |-> 12, doc |-> 36]>>,
            <<<<"_","_","s","i","z","e","o","f","_","_">>, [sig |-> 6, doc |-> 138]>>,
            <<<<"_","_","s","t","r","_","_">>, [sig |-> 6, doc |-> 38]>>,
            <<<<"_","_","s","u","b","c","l","a","s","s","c","h","e","c","k","_","_">>, [sig |-> 13, doc |-> 39]>>,
            <<<<"_","_","s","u","b","c","l","a","s","s","e","s","_","_">>, [sig |-> 2, doc |-> 40]>>,
            <<<<"_","_","s","u","b","c","l","a","s","s","h","o","o","k","_","_">>, [sig |-> 0, doc |-> 41]>>,
            <<<<"_","_","t","e","x","t","_","s","i","g","n","a","t","u","r","e","_","_">>, [sig |-> 0, doc |-> 0]>>,
            <<<<"_","_","w","e","a","k","r","e","f","o","f","f","s","e","t","_","_">>, [sig |-> 0, doc |-> 4]>>,
            <<<<"c","o","u","n","t">>, [sig |-> 0, doc |-> 287]>>,
            <<<<"i","n","d","e","x">>, [sig |-> 0, doc |-> 288]>>,
            <<<<"m","r","o">>, [sig |-> 2, doc |-> 70]>>,
            <<<<"s","t","a","r","t">>, [sig |-> 0, doc |-> 0]>>,
            <<<<"s","t","e","p">>, [sig |-> 0, doc |-> 0]>>,
            <<<<"s","t","o","p">>, [sig |-> 0, doc |-> 0]>> >>)]>>,
      <<<<"<class 'slice'>">>,
          [dir |-> <<<<"_","_","c","l","a","s","s","_","_">>, <<"_","_","d","e","l","a","t","t","r","_","_">>, <<"_",
                   "_","d","i","r","_","_">>, <<"_","_","d","o","c","_","_">>, <<"_","_","e","q",
                   "_","_">>, <<"_","_","f","o","r","m","a","t","_","_">>, <<"_","_","g","e","_","_"
                   >>, <<"_","_","g","e","t","a","t","t","r","i","b","u","t","e","_","_">>, <<"_",
                   "_","g","e","t","s","t","a","t","e","_","_">>, <<"_","_","g","t","_","_">>, <<
                   "_","_","h","a","s","h","_","_">>, <<"_","_","i","n","i","t","_","_">>, <<"_",
                   "_","i","n","i","t","_","s","u","b","c","l","a","s","s","_","_">>, <<"_","_","l",
                   "e","_","_">>, <<"_","_","l","t","_","_">>, <<"_","_","n","e","_","_">>, <<"_",
                   "_","n","e","w","_","_">>, <<"_","_","r","e","d","u","c","e","_","_">>, <<"_",
                   "_","r","e","d","u","c","e","_","e","x","_","_">>, <<"_","_","r","e","p","r","_",
                   "_">>, <<"_","_","s","e","t","a","t","t","r","_","_">>, <<"_","_","s","i","z",
                   "e","o","f","_","_">>, <<"_","_","s","t","r","_","_">>, <<"_","_","s","u","b",
                   "c","l","a","s","s","h","o","o","k","_","_">>, <<"i","n","d","i","c","e","s">>, 
                   <<"s","t","a","r","t">>, <<"s","t","e","p">>, <<"s","t","o","p">>>>,
           callable |-> {<<"_","_","c","l","a","s","s","_","_">>, <<"_","_","d","e","l","a","t","t","r","_","_">>, <<"_",
                        "_","d","i","r","_","_">>, <<"_","_","e","q","_","_">>, <<"_","_","f","o",
                        "r","m","a","t","_","_">>, <<"_","_","g","e","_","_">>, <<"_","_","g","e",
                        "t","a","t","t","r","i","b","u","t","e","_","_">>, <<"_","_","g","e","t",
                        "s","t","a","t","e","_","_">>, <<"_","_","g","t","_","_">>, <<"_","_","i",
                        "n","i","t","_","_">>, <<"_","_","i","n","i","t","_","s","u","b","c","l",
                        "a","s","s","_","_">>, <<"_","_","l","e","_","_">>, <<"_","_","l","t","_",
                        "_">>, <<"_","_","n","e","_","_">>, <<"_","_","n","e","w","_","_">>, <<"_",
                        "_","r","e","d","u","c","e","_","_">>, <<"_","_","r","e","d","u","c","e",
                        "_","e","x","_","_">>, <<"_","_","r","e","p","r","_","_">>, <<"_","_","s",
                        "e","t","a","t","t","r","_","_">>, <<"_","_","s","i","z","e","o","f","_","_"
                        >>, <<"_","_","s","t","r","_","_">>, <<"_","_","s","u","b","c","l","a","s",
                        "s","h","o","o","k","_","_">>, <<"i","n","d","i","c","e","s">>},
           attrs |-> DictOf(<<
            <<<<"_","_","b","a","s","e","_","_">>, [sig |-> 2, doc |-> 2]>>,
            <<<<"_","_","b","a","s","e","s","_","_">>, [sig |-> 0, doc |-> 3]>>,
            <<<<"_","_","b","a","s","i","c","s","i","z","e","_","_">>, [sig |-> 0, doc |-> 4]>>,
            <<<<"_","_","c","a","l","l","_","_">>, [sig |-> 3, doc |-> 5]>>,
            <<<<"_","_","c","l","a","s","s","_","_">>, [sig |-> 0, doc |-> 6]>>,
            <<<<"_","_","d","e","l","a","t","t","r","_","_">>, [sig |-> 5, doc |-> 8]>>,
            <<<<"_","_","d","i","c","t","_","_">>, [sig |-> 0, doc |-> 0]>>,
            <<<<"_","_","d","i","c","t","o","f","f","s","e","t","_","_">>, [sig |-> 0, doc |-> 4]>>,
            <<<<"_","_","d","i","r","_","_">>, [sig |-> 6, doc |-> 9]>>,
            <<<<"_","_","d","o","c","_","_">>, [sig |-> 0, doc |-> 10]>>,
            <<<<"_","_","e","q","_","_">>, [sig |-> 1, doc |-> 11]>>,
            <<<<"_","_","f","l","a","g","s","_","_">>, [sig |-> 0, doc |-> 4]>>,
            <<<<"_","_","f","o","r","m","a","t","_","_">>, [sig |-> 7, doc |-> 98]>>,
            <<<<"_","_","g","e","_","_">>, [sig |-> 1, doc |-> 13]>>,
            <<<<"_","_","g","e","t","a","t","t","r","i","b","u","t","e","_","_">>, [sig |-> 5, doc |-> 14]>>,
            <<<<"_","_","g","e","t","s","t","a","t","e","_","_">>, [sig |-> 6, doc |-> 16]>>,
            <<<<"_","_","g","t","_","_">>, [sig |-> 1, doc |-> 17]>>,
            <<<<"_","_","h","a","s","h","_","_">>, [sig |-> 0, doc |-> 0]>>,
            <<<<"_","_","i","n","i","t","_","_">>, [sig |-> 8, doc |-> 19]>>,
            <<<<"_","_","i","n","i","t","_","s","u","b","c","l","a","s","s","_","_">>, [sig |-> 0, doc |-> 20]>>,
            <<<<"_","_","i","n","s","t","a","n","c","e","c","h","e","c","k","_","_">>, [sig |-> 9, doc |-> 21]>>,
            <<<<"_","_","i","t","e","m","s","i","z","e","_","_">>, [sig |-> 0, doc |-> 4]>>,
            <<<<"_","_","l","e","_","_">>, [sig |-> 1, doc |-> 23]>>,
            <<<<"_","_","l","t","_","_">>, [sig |-> 1, doc |-> 25]>>,
            <<<<"_","_","m","o","d","u","l","e","_","_">>, [sig |-> 0, doc |-> 10]>>,
            <<<<"_","_","m","r","o","_","_">>, [sig |-> 0, doc |-> 3]>>,
            <<<<"_","_","n","a","m","e","_","_">>, [sig |-> 0, doc |-> 10]>>,
            <<<<"_","_","n","e","_","_">>, [sig |-> 1, doc |-> 28]>>,
            <<<<"_","_","n","e","w","_","_">>, [sig |-> 3, doc |-> 29]>>,
            <<<<"_","_","o","r","_","_">>, [sig |-> 10, doc |-> 30]>>,
            <<<<"_","_","p","r","e","p","a","r","e","_","_">>, [sig |-> 0, doc |-> 31]>>,
            <<<<"_","_","q","u","a","l","n","a","m","e","_","_">>, [sig |-> 0, doc |-> 10]>>,
            <<<<"_","_","r","e","d","u","c","e","_","_">>, [sig |-> 0, doc |-> 186]>>,
            <<<<"_","_","r","e","d","u","c","e","_","e","x","_","_">>, [sig |-> 11, doc |-> 16]>>,
            <<<<"_","_","r","e","p","r","_","_">>, [sig |-> 6, doc |-> 32]>>,
            <<<<"_","_","r","o","r","_","_">>, [sig |-> 10, doc |-> 35]>>,
            <<<<"_","_","s","e","t","a","t","t","r","_","_">>, [sig |-> 12, doc |-> 36]>>,
            <<<<"_","_","s","i","z","e","o","f","_","_">>, [sig |-> 6, doc |-> 138]>>,
            <<<<"_","_","s","t","r","_","_">>, [sig |-> 6, doc |-> 38]>>,
            <<<<"_","_","s","u","b","c","l","a","s","s","c","h","e","c","k","_","_">>, [sig |-> 13, doc |-> 39]>>,
            <<<<"_","_","s","u","b","c","l","a","s","s","e","s","_","_">>, [sig |-> 2, doc |-> 40]>>,
            <<<<"_","_","s","u","b","c","l","a","s","s","h","o","o","k","_","_">>, [sig |-> 0, doc |-> 41]>>,
            <<<<"_","_","t","e","x","t","_","s","i","g","n","a","t","u","r","e","_","_">>, [sig |-> 0, doc |-> 0]>>,
            <<<<"_","_","w","e","a","k","r","e","f","o","f","f","s","e","t","_","_">>, [sig |-> 0, doc |-> 4]>>,
            <<<<"i","n","d","i","c","e","s">>, [sig |-> 0, doc |-> 289]>>,
            <<<<"m","r","o">>, [sig |-> 2, doc |-> 70]>>,
            <<<<"s","t","a","r","t">>, [sig |-> 0, doc |-> 0]>>,
            <<<<"s","t","e","p">>, [sig |-> 0, doc |-> 0]>>,
            <<<<"s","t","o","p">>, [sig |-> 0, doc |-> 0]>> >>)]>>,
      <<<<"<class 'type'>">>,
          [dir |-> <<<<"_","_","a","b","s","t","r","a","c","t","m","e","t","h","o","d","s","_","_">>, <<"_","_","a",
                   "n","n","o","t","a","t","i","o","n","s","_","_">>, <<"_","_","b","a","s","e","_",
                   "_">>, <<"_","_","b","a","s","e","s","_","_">>, <<"_","_","b","a","s","i","c",
                   "s","i","z","e","_","_">>, <<"_","_","c","a","l","l","_","_">>, <<"_","_","c",
                   "l","a","s","s","_","_">>, <<"_","_","d","e","l","a","t","t","r","_","_">>, <<
                   "_","_","d","i","c","t","_","_">>, <<"_","_","d","i","c","t","o","f","f","s","e",
                   "t","_","_">>, <<"_","_","d","i","r","_","_">>, <<"_","_","d","o","c","_","_">>, 
                   <<"_","_","e","q","_","_">>, <<"_","_","f","l","a","g","s","_","_">>, <<"_","_",
                   "f","o","r","m","a","t","_","_">>, <<"_","_","g","e","_","_">>, <<"_","_","g",
                   "e","t","a","t","t","r","i","b","u","t","e","_","_">>, <<"_","_","g","e","t","s",
                   "t","a","t","e","_","_">>, <<"_","_","g","t","_","_">>, <<"_","_","h","a","s",
                   "h","_","_">>, <<"_","_","i","n","i","t","_","_">>, <<"_","_","i","n","i","t",
                   "_","s","u","b","c","l","a","s","s","_","_">>, <<"_","_","i","n","s","t","a","n",
                   "c","e","c","h","e","c","k","_","_">>, <<"_","_","i","t","e","m","s","i","z","e",
                   "_","_">>, <<"_","_","l","e","_","_">>, <<"_","_","l","t","_","_">>, <<"_","_",
                   "m","o","d","u","l","e","_","_">>, <<"_","_","m","r","o","_","_">>, <<"_","_",
                   "n","a","m","e","_","_">>, <<"_","_","n","e","_","_">>, <<"_","_","n","e","w",
                   "_","_">>, <<"_","_","o","r","_","_">>, <<"_","_","p","r","e","p","a","r","e",
                   "_","_">>, <<"_","_","q","u","a","l","n","a","m","e","_","_">>, <<"_","_","r",
                   "e","d","u","c","e","_","_">>, <<"_","_","r","e","d","u","c","e","_","e","x","_",
                   "_">>, <<"_","_","r","e","p","r","_","_">>, <<"_","_","r","o","r","_","_">>, <<
                   "_","_","s","e","t","a","t","t","r","_","_">>, <<"_","_","s","i","z","e","o","f",
                   "_","_">>, <<"_","_","s","t","r","_","_">>, <<"_","_","s","u","b","c","l","a",
                   "s","s","c","h","e","c","k","_","_">>, <<"_","_","s","u","b","c","l","a","s","s",
                   "e","s","_","_">>, <<"_","_","s","u","b","c","l","a","s","s","h","o","o","k","_",
                   "_">>, <<"_","_","t","e","x","t","_","s","i","g","n","a","t","u","r","e","_","_"
                   >>, <<"_","_","w","e","a","k","r","e","f","o","f","f","s","e","t","_","_">>, <<
                   "m","r","o">>>>,
           callable |-> {<<"_","_","b","a","s","e","_","_">>, <<"_","_","c","a","l","l","_","_">>, <<"_","_","c","l","a",
                        "s","s","_","_">>, <<"_","_","d","e","l","a","t","t","r","_","_">>, <<"_",
                        "_","d","i","r","_","_">>, <<"_","_","e","q","_","_">>, <<"_","_","f","o",
                        "r","m","a","t","_","_">>, <<"_","_","g","e","_","_">>, <<"_","_","g","e",
                        "t","a","t","t","r","i","b","u","t","e","_","_">>, <<"_","_","g","e","t",
                        "s","t","a","t","e","_","_">>, <<"_","_","g","t","_","_">>, <<"_","_","h",
                        "a","s","h","_","_">>, <<"_","_","i","n","i","t","_","_">>, <<"_","_","i",
                        "n","i","t","_","s","u","b","c","l","a","s","s","_","_">>, <<"_","_","i",
                        "n","s","t","a","n","c","e","c","h","e","c","k","_","_">>, <<"_","_","l",
                        "e","_","_">>, <<"_","_","l","t","_","_">>, <<"_","_","n","e","_","_">>, <<
                        "_","_","n","e","w","_","_">>, <<"_","_","o","r","_","_">>, <<"_","_","p",
                        "r","e","p","a","r","e","_","_">>, <<"_","_","r","e","d","u","c","e","_","_"
                        >>, <<"_","_","r","e","d","u","c","e","_","e","x","_","_">>, <<"_","_","r",
                        "e","p","r","_","_">>, <<"_","_","r","o","r","_","_">>, <<"_","_","s","e",
                        "t","a","t","t","r","_","_">>, <<"_","_","s","i","z","e","o","f","_","_">>, 
                        <<"_","_","s","t","r","_","_">>, <<"_","_","s","u","b","c","l","a","s","s",
                        "c","h","e","c","k","_","_">>, <<"_","_","s","u","b","c","l","a","s","s",
                        "e","s","_","_">>, <<"_","_","s","u","b","c","l","a","s","s","h","o","o",
                        "k","_","_">>, <<"m","r","o">>},
           attrs |-> DictOf(<<
            <<<<"_","_","b","a","s","e","_","_">>, [sig |-> 2, doc |-> 2]>>,
            <<<<"_","_","b","a","s","e","s","_","_">>, [sig |-> 0, doc |-> 3]>>,
            <<<<"_","_","b","a","s","i","c","s","i","z","e","_","_">>, [sig |-> 0, doc |-> 4]>>,
            <<<<"_","_","c","a","l","l","_","_">>, [sig |-> 8, doc |-> 5]>>,
            <<<<"_","_","c","l","a","s","s","_","_">>, [sig |-> 0, doc |-> 6]>>,
            <<<<"_","_","d","e","l","a","t","t","r","_","_">>, [sig |-> 5, doc |-> 8]>>,
            <<<<"_","_","d","i","c","t","_","_">>, [sig |-> 0, doc |-> 0]>>,
            <<<<"_","_","d","i","c","t","o","f","f","s","e","t","_","_">>, [sig |-> 0, doc |-> 4]>>,
            <<<<"_","_","d","i","r","_","_">>, [sig |-> 6, doc |-> 290]>>,
            <<<<"_","_","d","o","c","_","_">>, [sig |-> 0, doc |-> 10]>>,
            <<<<"_","_","e","q","_","_">>, [sig |-> 1, doc |-> 11]>>,
            <<<<"_","_","f","l","a","g","s","_","_">>, [sig |-> 0, doc |-> 4]>>,
            <<<<"_","_","f","o","r","m","a","t","_","_">>, [sig |-> 7, doc |-> 98]>>,
            <<<<"_","_","g","e","_","_">>, [sig |-> 1, doc |-> 13]>>,
            <<<<"_","_","g","e","t","a","t","t","r","i","b","u","t","e","_","_">>, [sig |-> 5, doc |-> 14]>>,
            <<<<"_","_","g","e","t","s","t","a","t","e","_","_">>, [sig |-> 6, doc |-> 16]>>,
            <<<<"_","_","g","t","_","_">>, [sig |-> 1, doc |-> 17]>>,
            <<<<"_","_","h","a","s","h","_","_">>, [sig |-> 6, doc |-> 18]>>,
            <<<<"_","_","i","n","i","t","_","_">>, [sig |-> 8, doc |-> 19]>>,
            <<<<"_","_","i","n","i","t","_","s","u","b","c","l","a","s","s","_","_">>, [sig |-> 0, doc |-> 20]>>,
            <<<<"_","_","i","n","s","t","a","n","c","e","c","h","e","c","k","_","_">>, [sig |-> 51, doc |-> 21]>>,
            <<<<"_","_","i","t","e","m","s","i","z","e","_","_">>, [sig |-> 0, doc |-> 4]>>,
            <<<<"_","_","l","e","_","_">>, [sig |-> 1, doc |-> 23]>>,
            <<<<"_","_","l","t","_","_">>, [sig |-> 1, doc |-> 25]>>,
            <<<<"_","_","m","o","d","u","l","e","_","_">>, [sig |-> 0, doc |-> 10]>>,
            <<<<"_","_","m","r","o","_","_">>, [sig |-> 0, doc |-> 3]>>,
            <<<<"_","_","n","a","m","e","_","_">>, [sig |-> 0, doc |-> 10]>>,
            <<<<"_","_","n","e","_","_">>, [sig |-> 1, doc |-> 28]>>,
            <<<<"_","_","n","e","w","_","_">>, [sig |-> 3, doc |-> 29]>>,
            <<<<"_","_","o","r","_","_">>, [sig |-> 1, doc |-> 30]>>,
            <<<<"_","_","p","r","e","p","a","r","e","_","_">>, [sig |-> 0, doc |-> 31]>>,
            <<<<"_","_","q","u","a","l","n","a","m","e","_","_">>, [sig |-> 0, doc |-> 10]>>,
            <<<<"_","_","r","e","d","u","c","e","_","_">>, [sig |-> 6, doc |-> 16]>>,
            <<<<"_","_","r","e","d","u","c","e","_","e","x","_","_">>, [sig |-> 11, doc |-> 16]>>,
            <<<<"_","_","r","e","p","r","_","_">>, [sig |-> 6, doc |-> 32]>>,
            <<<<"_","_","r","o","r","_","_">>, [sig |-> 1, doc |-> 35]>>,
            <<<<"_","_","s","e","t","a","t","t","r","_","_">>, [sig |-> 12, doc |-> 36]>>,
            <<<<"_","_","s","i","z","e","o","f","_","_">>, [sig |-> 6, doc |-> 291]>>,
            <<<<"_","_","s","t","r","_","_">>, [sig |-> 6, doc |-> 38]>>,
            <<<<"_","_","s","u","b","c","l","a","s","s","c","h","e","c","k","_","_">>, [sig |-> 52, doc |-> 39]>>,
            <<<<"_","_","s","u","b","c","l","a","s","s","e","s","_","_">>, [sig |-> 6, doc |-> 40]>>,
            <<<<"_","_","s","u","b","c","l","a","s","s","h","o","o","k","_","_">>, [sig |-> 0, doc |-> 41]>>,
            <<<<"_","_","t","e","x","t","_","s","i","g","n","a","t","u","r","e","_","_">>, [sig |-> 0, doc |-> 0]>>,
            <<<<"_","_","w","e","a","k","r","e","f","o","f","f","s","e","t","_","_">>, [sig |-> 0, doc |-> 4]>>,
            <<<<"m","r","o">>, [sig |-> 6, doc |-> 70]>> >>)]>>,
      <<<<"<class 'object'>">>,
          [dir |-> <<<<"_","_","c","l","a","s","s","_","_">>, <<"_","_","d","e","l","a","t","t","r","_","_">>, <<"_",
                   "_","d","i","r","_","_">>, <<"_","_","d","o","c","_","_">>, <<"_","_","e","q",
                   "_","_">>, <<"_","_","f","o","r","m","a","t","_","_">>, <<"_","_","g","e","_","_"
                   >>, <<"_","_","g","e","t","a","t","t","r","i","b","u","t","e","_","_">>, <<"_",
                   "_","g","e","t","s","t","a","t","e","_","_">>, <<"_","_","g","t","_","_">>, <<
                   "_","_","h","a","s","h","_","_">>, <<"_","_","i","n","i","t","_","_">>, <<"_",
                   "_","i","n","i","t","_","s","u","b","c","l","a","s","s","_","_">>, <<"_","_","l",
                   "e","_","_">>, <<"_","_","l","t","_","_">>, <<"_","_","n","e","_","_">>, <<"_",
                   "_","n","e","w","_","_">>, <<"_","_","r","e","d","u","c","e","_","_">>, <<"_",
                   "_","r","e","d","u","c","e","_","e","x","_","_">>, <<"_","_","r","e","p","r","_",
                   "_">>, <<"_","_","s","e","t","a","t","t","r","_","_">>, <<"_","_","s","i","z",
                   "e","o","f","_","_">>, <<"_","_","s","t","r","_","_">>, <<"_","_","s","u","b",
                   "c","l","a","s","s","h","o","o","k","_","_">>>>,
           callable |-> {<<"_","_","c","l","a","s","s","_","_">>, <<"_","_","d","e","l","a","t","t","r","_","_">>, <<"_",
                        "_","d","i","r","_","_">>, <<"_","_","e","q","_","_">>, <<"_","_","f","o",
                        "r","m","a","t","_","_">>, <<"_","_","g","e","_","_">>, <<"_","_","g","e",
                        "t","a","t","t","r","i","b","u","t","e","_","_">>, <<"_","_","g","e","t",
                        "s","t","a","t","e","_","_">>, <<"_","_","g","t","_","_">>, <<"_","_","h",
                        "a","s","h","_","_">>, <<"_","_","i","n","i","t","_","_">>, <<"_","_","i",
                        "n","i","t","_","s","u","b","c","l","a","s","s","_","_">>, <<"_","_","l",
                        "e","_","_">>, <<"_","_","l","t","_","_">>, <<"_","_","n","e","_","_">>, <<
                        "_","_","n","e","w","_","_">>, <<"_","_","r","e","d","u","c","e","_","_">>, 
                        <<"_","_","r","e","d","u","c","e","_","e","x","_","_">>, <<"_","_","r","e",
                        "p","r","_","_">>, <<"_","_","s","e","t","a","t","t","r","_","_">>, <<"_",
                        "_","s","i","z","e","o","f","_","_">>, <<"_","_","s","t","r","_","_">>, <<
                        "_","_","s","u","b","c","l","a","s","s","h","o","o","k","_","_">>},
           attrs |-> DictOf(<<
            <<<<"_","_","b","a","s","e","_","_">>, [sig |-> 0, doc |-> 0]>>,
            <<<<"_","_","b","a","s","e","s","_","_">>, [sig |-> 0, doc |-> 3]>>,
            <<<<"_","_","b","a","s","i","c","s","i","z","e","_","_">>, [sig |-> 0, doc |-> 4]>>,
            <<<<"_","_","c","a","l","l","_","_">>, [sig |-> 3, doc |-> 5]>>,
            <<<<"_","_","c","l","a","s","s","_","_">>, [sig |-> 0, doc |-> 6]>>,
            <<<<"_","_","d","e","l","a","t","t","r","_","_">>, [sig |-> 5, doc |-> 8]>>,
            <<<<"_","_","d","i","c","t","_","_">>, [sig |-> 0, doc |-> 0]>>,
            <<<<"_","_","d","i","c","t","o","f","f","s","e","t","_","_">>, [sig |-> 0, doc |-> 4]>>,
            <<<<"_","_","d","i","r","_","_">>, [sig |-> 6, doc |-> 9]>>,
            <<<<"_","_","d","o","c","_","_">>, [sig |-> 0, doc |-> 10]>>,
            <<<<"_","_","e","q","_","_">>, [sig |-> 1, doc |-> 11]>>,
            <<<<"_","_","f","l","a","g","s","_","_">>, [sig |-> 0, doc |-> 4]>>,
            <<<<"_","_","f","o","r","m","a","t","_","_">>, [sig |-> 7, doc |-> 98]>>,
            <<<<"_","_","g","e","_","_">>, [sig |-> 1, doc |-> 13]>>,
            <<<<"_","_","g","e","t","a","t","t","r","i","b","u","t","e","_","_">>, [sig |-> 5, doc |-> 14]>>,
            <<<<"_","_","g","e","t","s","t","a","t","e","_","_">>, [sig |-> 6, doc |-> 16]>>,
            <<<<"_","_","g","t","_","_">>, [sig |-> 1, doc |-> 17]>>,
            <<<<"_","_","h","a","s","h","_","_">>, [sig |-> 6, doc |-> 18]>>,
            <<<<"_","_","i","n","i","t","_","_">>, [sig |-> 8, doc |-> 19]>>,
            <<<<"_","_","i","n","i","t","_","s","u","b","c","l","a","s","s","_","_">>, [sig |-> 0, doc |-> 20]>>,
            <<<<"_","_","i","n","s","t","a","n","c","e","c","h","e","c","k","_","_">>, [sig |-> 9, doc |-> 21]>>,
            <<<<"_","_","i","t","e","m","s","i","z","e","_","_">>, [sig |-> 0, doc |-> 4]>>,
            <<<<"_","_","l","e","_","_">>, [sig |-> 1, doc |-> 23]>>,
            <<<<"_","_","l","t","_","_">>, [sig |-> 1, doc |-> 25]>>,
            <<<<"_","_","m","o","d","u","l","e","_","_">>, [sig |-> 0, doc |-> 10]>>,
            <<<<"_","_","m","r","o","_","_">>, [sig |-> 0, doc |-> 3]>>,
            <<<<"_","_","n","a","m","e","_","_">>, [sig |-> 0, doc |-> 10]>>,
            <<<<"_","_","n","e","_","_">>, [sig |-> 1, doc |-> 28]>>,
            <<<<"_","_","n","e","w","_","_">>, [sig |-> 3, doc |-> 29]>>,
            <<<<"_","_","o","r","_","_">>, [sig |-> 10, doc |-> 30]>>,
            <<<<"_","_","p","r","e","p","a","r","e","_","_">>, [sig |-> 0, doc |-> 31]>>,
            <<<<"_","_","q","u","a","l","n","a","m","e","_","_">>, [sig |-> 0, doc |-> 10]>>,
            <<<<"_","_","r","e","d","u","c","e","_","_">>, [sig |-> 6, doc |-> 16]>>,
            <<<<"_","_","r","e","d","u","c","e","_","e","x","_","_">>, [sig |-> 11, doc |-> 16]>>,
            <<<<"_","_","r","e","p","r","_","_">>, [sig |-> 6, doc |-> 32]>>,
            <<<<"_","_","r","o","r","_","_">>, [sig |-> 10, doc |-> 35]>>,
            <<<<"_","_","s","e","t","a","t","t","r","_","_">>, [sig |-> 12, doc |-> 36]>>,
            <<<<"_","_","s","i","z","e","o","f","_","_">>, [sig |-> 6, doc |-> 138]>>,
            <<<<"_","_","s","t","r","_","_">>, [sig |-> 6, doc |-> 38]>>,
            <<<<"_","_","s","u","b","c","l","a","s","s","c","h","e","c","k","_","_">>, [sig |-> 13, doc |-> 39]>>,
            <<<<"_","_","s","u","b","c","l","a","s","s","e","s","_","_">>, [sig |-> 2, doc |-> 40]>>,
            <<<<"_","_","s","u","b","c","l","a","s","s","h","o","o","k","_","_">>, [sig |-> 0, doc |-> 41]>>,
            <<<<"_","_","t","e","x","t","_","s","i","g","n","a","t","u","r","e","_","_">>, [sig |-> 0, doc |-> 10]>>,
            <<<<"_","_","w","e","a","k","r","e","f","o","f","f","s","e","t","_","_">>, [sig |-> 0, doc |-> 4]>>,
            <<<<"m","r","o">>, [sig |-> 2, doc |-> 70]>> >>)]>> >>)

(* A type object, from its entry in the table: every outcome number is     *)
(* replaced by the outcome it stands for                                    *)
type_object(entry) ==
    [dir |-> entry.dir,
     callable |-> entry.callable,
     attrs |-> [name \in DOMAIN entry.attrs |->
                  [sig |-> IF entry.attrs[name].sig = 0 THEN Raise
                           ELSE sig_texts[entry.attrs[name].sig],
                   doc |-> IF entry.attrs[name].doc = 0 THEN None
                           ELSE doc_texts[entry.attrs[name].doc]]]]

type_objects(table) == [t \in DOMAIN table |-> type_object(table[t])]

builtin_type_objects == type_objects(builtin_reflect_table)

(* The type object a handle of the registry denotes *)
builtin_reflect(t) == builtin_type_objects[t]

(* BuiltinTypeInspector.list_available_types: prints only *)

list_available_types(s) == <<Ev("list_available_types", <<>>)>>

(* BuiltinTypeInspector.load_type *)

(* load_type, recording the name that was asked for even when it is unknown *)
load_type_keeps_bad_name(s, type_name) ==
    IF type_name \in DOMAIN s.builtin_types
    THEN [self |-> [s EXCEPT !.current_type = s.builtin_types[type_name],
                             !.current_type_name = type_name],
          ret |-> TRUE,
          out |-> <<Ev("loaded", type_name)>>]
    ELSE [self |-> [s EXCEPT !.current_type_name = type_name],
          ret |-> FALSE,
          out |-> <<Ev("not_recognized_type", type_name),
                    Ev("available_types", <<>>)>>]

(* load_type, forgetting to update the name on success *)
load_type_stale_name(s, type_name) ==
    IF type_name \in DOMAIN s.builtin_types
    THEN [self |-> [s EXCEPT !.current_type = s.builtin_types[type_name],
                             !.current_type_name =
                                 IF @ = None THEN type_name ELSE @],
          ret |-> TRUE,
          out |-> <<Ev("loaded", type_name)>>]
    ELSE [self |-> s,
          ret |-> FALSE,
          out |-> <<Ev("not_recognized_type", type_name),
                    Ev("available_types", <<>>)>>]

(* load_type, resetting the active type when the name is unknown *)
load_type_clears(s, type_name) ==
    IF type_name \in DOMAIN s.builtin_types
    THEN [self |-> [s EXCEPT !.current_type = s.builtin_types[type_name],
                             !.current_type_name = type_name],
          ret |-> TRUE,
          out |-> <<Ev("loaded", type_name)>>]
    ELSE [self |-> [s EXCEPT !.current_type = None, !.current_type_name = None],
          ret |-> FALSE,
          out |-> <<Ev("not_recognized_type", type_name),
                    Ev("available_types", <<>>)>>]

(* load_type, remembering an unknown name in the registry *)
load_type_registers(s, type_name) ==
    IF type_name \in DOMAIN s.builtin_types
    THEN [self |-> [s EXCEPT !.current_type = s.builtin_types[type_name],
                             !.current_type_name = type_name],
          ret |-> TRUE,
          out |-> <<Ev("loaded", type_name)>>]
    ELSE [self |-> [s EXCEPT !.builtin_types =
                        [k \in DOMAIN @ \cup {type_name} |->
                            IF k \in DOMAIN @ THEN @[k] ELSE None]],
          ret |-> FALSE,
          out |-> <<Ev("not_recognized_type", type_name),
                    Ev("available_types", <<>>)>>]

load_type(s, type_name) ==
    IF type_name \in DOMAIN s.builtin_types
    THEN [self |-> [s EXCEPT !.current_type = s.builtin_types[type_name],
                             !.current_type_name = type_name],
          ret |-> TRUE,
          out |-> <<Ev("loaded", type_name)>>]
    ELSE [self |-> s,
          ret |-> FALSE,
          out |-> <<Ev("not_recognized_type", type_name),
                    Ev("available_types", <<>>)>>]

----------------------------------------------------------------------------
(* BuiltinTypeInspector.categorize_methods                                  *)
(* A type object is what reflection shows of it: dir(type_obj), a sorted    *)
(* duplicate-free list of names, and the names whose attribute is callable. *)

us == <<"_">>
dunder == <<"_","_">>

constructor_names ==
    {<<"_","_","n","e","w","_","_">>,
     <<"_","_","i","n","i","t","_","_">>,
     <<"_","_","i","n","i","t","_","s","u","b","c","l","a","s","s","_","_">>}

operator_names ==
    {<<"_","_","a","d","d","_","_">>,
     <<"_","_","s","u","b","_","_">>,
     <<"_","_","m","u","l","_","_">>,
     <<"_","_","t","r","u","e","d","i","v","_","_">>,
     <<"_","_","f","l","o","o","r","d","i","v","_","_">>,
     <<"_","_","m","o","d","_","_">>,
     <<"_","_","p","o","w","_","_">>,
     <<"_","_","a","n","d","_","_">>,
     <<"_","_","o","r","_","_">>,
     <<"_","_","x","o","r","_","_">>,
     <<"_","_","l","s","h","i","f","t","_","_">>,
     <<"_","_","r","s","h","i","f","t","_","_">>,
     <<"_","_","l","t","_","_">>,
     <<"_","_","l","e","_","_">>,
     <<"_","_","g","t","_","_">>,
     <<"_","_","g","e","_","_">>,
     <<"_","_","e","q","_","_">>,
     <<"_","_","n","e","_","_">>}

conversion_names ==
    {<<"h","e","x">>,
     <<"b","i","n">>,
     <<"o","c","t">>,
     <<"e","n","c","o","d","e">>,
     <<"d","e","c","o","d","e">>}

query_prefixes ==
    {<<"i","s">>,
     <<"h","a","s">>,
     <<"g","e","t">>,
     <<"f","i","n","d">>,
     <<"i","n","d","e","x">>,
     <<"c","o","u","n","t">>,
     <<"s","t","a","r","t","s">>,
     <<"e","n","d","s">>}

mutation_words ==
    {<<"a","d","d">>,
     <<"a","p","p","e","n","d">>,
     <<"e","x","t","e","n","d">>,
     <<"i","n","s","e","r","t">>,
     <<"r","e","m","o","v","e">>,
     <<"p","o","p">>,
     <<"c","l","e","a","r">>,
     <<"u","p","d","a","t","e">>,
     <<"s","e","t">>,
     <<"d","e","l">>,
     <<"r","e","p","l","a","c","e">>,
     <<"s","o","r","t">>,
     <<"r","e","v","e","r","s","e">>}

empty_categories ==
    [constructors |-> <<>>, magic_methods |-> <<>>, query_methods |-> <<>>,
     mutation_methods |-> <<>>, conversion_methods |-> <<>>, operators |-> <<>>,
     other_methods |-> <<>>]

(* dir(t) *)
dir(t) == t.dir

(* callable(getattr(t, name, None)) *)
is_callable(t, name) == name \in t.callable

(* The loop body without the filter on private names *)
categorize_name_no_filter(cats, t, name) ==
    IF ~is_callable(t, name) THEN cats
    ELSE IF startswith(name, dunder) /\ endswith(name, dunder) THEN
        IF name \in constructor_names
        THEN [cats EXCEPT !.constructors = Append(@, name)]
        ELSE IF startswith(name, <<"_","_","r">>) /\ endswith(name, dunder)
        THEN [cats EXCEPT !.operators = Append(@, name)]
        ELSE IF name \in operator_names
        THEN [cats EXCEPT !.operators = Append(@, name)]
        ELSE [cats EXCEPT !.magic_methods = Append(@, name)]
    ELSE
        LET method_lower == lower(name) IN
        IF startswith(name, <<"t","o">>) \/ name \in conversion_names
        THEN [cats EXCEPT !.conversion_methods = Append(@, name)]
        ELSE IF \E prefix \in query_prefixes : contains(method_lower, prefix)
        THEN [cats EXCEPT !.query_methods = Append(@, name)]
        ELSE IF \E word \in mutation_words : contains(method_lower, word)
        THEN [cats EXCEPT !.mutation_methods = Append(@, name)]
        ELSE [cats EXCEPT !.other_methods = Append(@, name)]

(* One pass of the loop body, lines 76-109 *)
categorize_name(cats, t, name) ==
    IF ~is_callable(t, name) THEN cats
    ELSE IF startswith(name, us)
            /\ ~(startswith(name, dunder) /\ endswith(name, dunder)) THEN cats
    ELSE IF startswith(name, dunder) /\ endswith(name, dunder) THEN
        IF name \in constructor_names
        THEN [cats EXCEPT !.constructors = Append(@, name)]
        ELSE IF startswith(name, <<"_","_","r">>) /\ endswith(name, dunder)
        THEN [cats EXCEPT !.operators = Append(@, name)]
        ELSE IF name \in operator_names
        THEN [cats EXCEPT !.operators = Append(@, name)]
        ELSE [cats EXCEPT !.magic_methods = Append(@, name)]
    ELSE
        LET method_lower == lower(name) IN
        IF startswith(name, <<"t","o">>) \/ name \in conversion_names
        THEN [cats EXCEPT !.conversion_methods = Append(@, name)]
        ELSE IF \E prefix \in query_prefixes : contains(method_lower, prefix)
        THEN [cats EXCEPT !.query_methods = Append(@, name)]
        ELSE IF \E word \in mutation_words : contains(method_lower, word)
        THEN [cats EXCEPT !.mutation_methods = Append(@, name)]
        ELSE [cats EXCEPT !.other_methods = Append(@, name)]

(* for name in dir(type_obj): st holds the categories filled so far and the *)
(* names still to visit                                                     *)
RECURSIVE categorize_loop(_, _)
categorize_loop(st, t) ==
    IF st.names = <<>> THEN st.categories
    ELSE categorize_loop([categories |-> categorize_name(st.categories, t, Head(st.names)),
                          names |-> Tail(st.names)], t)

categorize_methods(t) ==
    categorize_loop([categories |-> empty_categories, names |-> dir(t)], t)

----------------------------------------------------------------------------
(* sorted() on a list of str: code point order, lexicographic *)

Alphabet ==
    <<"A","B","C","D","E","F","G","H","I","J","K","L","M","N","O","P","Q","R",
      "S","T","U","V","W","X","Y","Z","_","a","b","c","d","e","f","g","h","i",
      "j","k","l","m","n","o","p","q","r","s","t","u","v","w","x","y","z">>

(* ord(c), as the place of c among the characters a name is made of *)
ord_table ==
    [c \in {Alphabet[i] : i \in DOMAIN Alphabet} |->
        CHOOSE i \in DOMAIN Alphabet : Alphabet[i] = c]

Ord(c) == ord_table[c]

RECURSIVE str_lt(_, _)
str_lt(a, b) ==
    IF b = <<>> THEN FALSE
    ELSE IF a = <<>> THEN TRUE
    ELSE IF Head(a) = Head(b) THEN str_lt(Tail(a), Tail(b))
    ELSE Ord(Head(a)) < Ord(Head(b))

(* sorted(xs) for a list: ascending and stable.  placed holds <<k, i>> when *)
(* xs[i] is the k-th item of the result.                                    *)
sorted(xs) ==
    LET placed == {<<1 + Cardinality({j \in DOMAIN xs :
                                        \/ str_lt(xs[j], xs[i])
                                        \/ xs[j] = xs[i] /\ j < i}), i>> :
                      i \in DOMAIN xs}
    IN  [k \in DOMAIN xs |-> xs[CHOOSE i \in DOMAIN xs : <<k, i>> \in placed]]

(* sorted(S) for a set of str: placed holds <<k, x>> when x is the k-th     *)
(* item of the result.                                                      *)
sorted_set(S) ==
    LET placed == {<<1 + Cardinality({y \in S : str_lt(y, x)}), x>> : x \in S}
    IN  [k \in 1..Cardinality(S) |-> CHOOSE x \in S : <<k, x>> \in placed]

----------------------------------------------------------------------------
(* Reflection: getattr / hasattr / inspect.signature / inspect.getdoc.      *)
(* t.attrs maps each attribute name the type has to what inspect yields for *)
(* it: sig is str(inspect.signature(attr)) or Raise when signature() raises,*)
(* doc is inspect.getdoc(attr): a text, None, or Raise when getdoc() raises.*)

hasattr(t, name) == name \in DOMAIN t.attrs

getattr(t, name) == t.attrs[name]

placeholder_sig == <<"(",".",".",".",")">>
ellipsis == <<".",".",".">>
DocLimit == 80

(* doc.split('\n')[0] *)
first_line_of(doc) ==
    LET breaks == {i \in DOMAIN doc : doc[i] = "\n"} IN
    IF breaks = {} THEN doc
    ELSE SubSeq(doc, 1, (CHOOSE i \in breaks : \A j \in breaks : i <= j) - 1)

Take(s, n) == SubSeq(s, 1, IF Len(s) < n THEN Len(s) ELSE n)

(* BuiltinTypeInspector.get_method_signature *)
get_method_signature(t, method_name) ==
    IF ~hasattr(t, method_name) THEN placeholder_sig
    ELSE IF getattr(t, method_name).sig = Raise THEN placeholder_sig
    ELSE getattr(t, method_name).sig

(* BuiltinTypeInspector.get_method_doc *)
get_method_doc(t, method_name) ==
    IF ~hasattr(t, method_name) THEN None
    ELSE IF getattr(t, method_name).doc = Raise THEN None
    ELSE LET doc == getattr(t, method_name).doc IN
         IF doc # None /\ doc # <<>>
         THEN LET first_line == strip(first_line_of(doc)) IN
              Take(first_line, DocLimit)
                 \o (IF Len(first_line) > DocLimit THEN ellipsis ELSE <<>>)
         ELSE None

----------------------------------------------------------------------------
(* BuiltinTypeInspector.analyze_type *)

operator_map ==
    DictOf(<< <<<<"_","_","a","d","d","_","_">>, <<"+">>>>,
       <<<<"_","_","s","u","b","_","_">>, <<"-">>>>,
       <<<<"_","_","m","u","l","_","_">>, <<"*">>>>,
       <<<<"_","_","t","r","u","e","d","i","v","_","_">>, <<"/">>>>,
       <<<<"_","_","f","l","o","o","r","d","i","v","_","_">>, <<"/","/">>>>,
       <<<<"_","_","m","o","d","_","_">>, <<"%">>>>,
       <<<<"_","_","p","o","w","_","_">>, <<"*","*">>>>,
       <<<<"_","_","a","n","d","_","_">>, <<"&">>>>,
       <<<<"_","_","o","r","_","_">>, <<"|">>>>,
       <<<<"_","_","x","o","r","_","_">>, <<"^">>>>,
       <<<<"_","_","l","s","h","i","f","t","_","_">>, <<"<","<">>>>,
       <<<<"_","_","r","s","h","i","f","t","_","_">>, <<">",">">>>>,
       <<<<"_","_","l","t","_","_">>, <<"<">>>>,
       <<<<"_","_","l","e","_","_">>, <<"<","=">>>>,
       <<<<"_","_","g","t","_","_">>, <<">">>>>,
       <<<<"_","_","g","e","_","_">>, <<">","=">>>>,
       <<<<"_","_","e","q","_","_">>, <<"=","=">>>>,
       <<<<"_","_","n","e","_","_">>, <<"!","=">>>> >>)

(* operator_map.get(method_name, '') *)
operator_symbol(method_name) ==
    IF method_name \in DOMAIN operator_map THEN operator_map[method_name] ELSE <<>>

(* if doc: print(doc) -- the doc line of an entry, None when none is printed *)
printed_doc(doc) == IF doc # None /\ doc # <<>> THEN doc ELSE None

(* One printed section: its title with the count, then one entry per method *)
section(title, names, t) ==
    IF names = <<>> THEN <<>>
    ELSE LET ns == sorted(names) IN
         <<Ev(title, [i \in DOMAIN ns |->
                        [name |-> ns[i],
                         sig |-> get_method_signature(t, ns[i]),
                         doc |-> printed_doc(get_method_doc(t, ns[i]))]])>>

operator_section(names, t) ==
    IF names = <<>> THEN <<>>
    ELSE LET ns == sorted(names) IN
         <<Ev("OPERATOR OVERLOADS", [i \in DOMAIN ns |->
                        [name |-> ns[i],
                         sig |-> operator_symbol(ns[i]),
                         doc |-> printed_doc(get_method_doc(t, ns[i]))]])>>

(* The sections analyze_type prints for the type object t, lines 186-256,   *)
(* given the categories line 184 computed                                   *)
print_sections(cats, t) ==
    section("CONSTRUCTORS", cats.constructors, t)
    \o section("QUERY METHODS", cats.query_methods, t)
    \o section("MUTATION METHODS", cats.mutation_methods, t)
    \o section("CONVERSION METHODS", cats.conversion_methods, t)
    \o operator_section(cats.operators, t)
    \o section("SPECIAL METHODS", cats.magic_methods, t)
    \o section("OTHER METHODS", cats.other_methods, t)

(* categories = self.categorize_methods(self.current_type), then the prints *)
sections(t) == print_sections(categorize_methods(t), t)

sections_of(objects) == [t \in DOMAIN objects |-> sections(objects[t])]

(* sections(t) of every type of the registry, evaluated once *)
builtin_sections == sections_of(builtin_type_objects)

analyze_type(s) ==
    IF Not(s.current_type) THEN <<Ev("No type loaded", <<>>)>>
    ELSE <<Ev("ANALYZING TYPE", s.current_type_name)>>
         \o builtin_sections[s.current_type]

----------------------------------------------------------------------------
(* BuiltinTypeInspector.show_examples *)

examples ==
    DictOf(<< <<t_str, <<"PRACTICAL EXAMPLES FOR str">> >>,
              <<t_list, <<"PRACTICAL EXAMPLES FOR list">> >>,
              <<t_dict, <<"PRACTICAL EXAMPLES FOR dict">> >>,
              <<t_set, <<"PRACTICAL EXAMPLES FOR set">> >>,
              <<t_int, <<"PRACTICAL EXAMPLES FOR int">> >>,
              <<t_tuple, <<"PRACTICAL EXAMPLES FOR tuple">> >> >>)

show_examples(s) ==
    IF Not(s.current_type) THEN <<Ev("No type loaded", <<>>)>>
    ELSE IF s.current_type_name \in DOMAIN examples
    THEN <<Ev("example", examples[s.current_type_name])>>
    ELSE <<Ev("No examples available for", s.current_type_name)>>

----------------------------------------------------------------------------
(* BuiltinTypeInspector.inspect_method.  status is "returned", or "raised"  *)
(* when an exception leaves the method.                                     *)

(* inspect_attribute with the signature step outside any try *)
inspect_attribute_unguarded_signature(t, method_name) ==
    IF ~hasattr(t, method_name)
    THEN [status |-> "returned", out |-> <<Ev("Method not found", method_name)>>]
    ELSE LET m == getattr(t, method_name)
             head == <<Ev("METHOD INSPECTION", method_name)>>
         IN  IF m.sig = Raise \/ m.doc = Raise
             THEN [status |-> "raised", out |-> head]
             ELSE IF m.doc # None /\ m.doc # <<>>
             THEN [status |-> "returned",
                   out |-> head \o <<Ev("Signature", m.sig), Ev("Documentation", m.doc)>>]
             ELSE [status |-> "returned",
                   out |-> head \o <<Ev("Signature", m.sig),
                                     Ev("Documentation: None available", <<>>)>>]

(* Lines 436-463, on the type object t that self.current_type denotes *)
inspect_attribute(t, method_name) ==
    IF ~hasattr(t, method_name)
    THEN [status |-> "returned", out |-> <<Ev("Method not found", method_name)>>]
    ELSE LET m == getattr(t, method_name)
             head == <<Ev("METHOD INSPECTION", method_name)>>
             sig == IF m.sig = Raise
                    THEN <<Ev("Signature", placeholder_sig)>>
                    ELSE <<Ev("Signature", m.sig)>>
         IN  IF m.doc = Raise
             THEN [status |-> "raised", out |-> head \o sig]
             ELSE IF m.doc # None /\ m.doc # <<>>
             THEN [status |-> "returned",
                   out |-> head \o sig \o <<Ev("Documentation", m.doc)>>]
             ELSE [status |-> "returned",
                   out |-> head \o sig \o <<Ev("Documentation: None available", <<>>)>>]

inspect_method(s, method_name) ==
    IF Not(s.current_type)
    THEN [status |-> "returned", out |-> <<Ev("No type loaded", <<>>)>>]
    ELSE inspect_attribute(builtin_reflect(s.current_type), method_name)

----------------------------------------------------------------------------
(* BuiltinTypeInspector.compare_types *)

Range(f) == {f[i] : i \in DOMAIN f}

(* for method in sorted(names): if not method.startswith('_'): print *)
public_sorted(names) == SelectSeq(sorted_set(names), LAMBDA n : ~startswith(n, us))

(* What compare_types prints of the type objects type1 and type2, lines     *)
(* 471-498                                                                  *)
comparison(type1, type2) ==
    LET methods1 == Range(dir(type1))
        methods2 == Range(dir(type2))
        common == methods1 \cap methods2
        only1 == methods1 \ methods2
        only2 == methods2 \ methods1
    IN  <<Ev("Common methods", <<Cardinality(common), public_sorted(common)>>),
          Ev("Only in 1", <<Cardinality(only1), public_sorted(only1)>>),
          Ev("Only in 2", <<Cardinality(only2), public_sorted(only2)>>)>>

comparisons_of(objects) ==
    [type1 \in DOMAIN objects, type2 \in DOMAIN objects |->
        comparison(objects[type1], objects[type2])]

(* comparison of every two types of the registry, evaluated once *)
builtin_comparisons == comparisons_of(builtin_type_objects)

compare_types(s, type_name1, type_name2) ==
    IF type_name1 \notin DOMAIN s.builtin_types \/ type_name2 \notin DOMAIN s.builtin_types
    THEN <<Ev("One or both types not recognized", <<>>)>>
    ELSE LET type1 == s.builtin_types[type_name1]
             type2 == s.builtin_types[type_name2]
         IN  <<Ev("COMPARING", <<type_name1, type_name2>>)>>
             \o builtin_comparisons[type1, type2]

----------------------------------------------------------------------------
(* BuiltinTypeInspector.show_menu: the menu is printed, then a line is      *)
(* read.  A step of the model runs from one read of the choice to the next, *)
(* so the print ends the step before and the read starts this one.          *)

menu_text == <<Ev("WHAT WOULD YOU LIKE TO DO?", <<>>)>>

(* show_menu without the strip *)
show_menu_raw(line) == line

(* input(...).strip() on a line that was read *)
show_menu(line) == strip(line)

(* BuiltinTypeInspector.interactive_mode: one pass of the while loop, given *)
(* the lines standard input supplies (EOF: input() raises EOFError, which   *)
(* nothing catches).  The result is the inspector afterwards, what was      *)
(* printed, where control is, and the load_type call that was made.         *)

Outcome(s, o, where, call) == [self |-> s, out |-> o, pc |-> where, load_call |-> call]

Again(s, o, call) == Outcome(s, o \o menu_text, "menu", call)
(* An exception nothing catches ends the process: EOFError from input(),   *)
(* or whatever inspect.getdoc raised inside inspect_method.                 *)
Uncaught(s, o, call) == Outcome(s, o, "EOFError", call)
Propagated(s, o, call) == Outcome(s, o, "Exception", call)

ask_method(s, o, call, line) ==
    IF line = EOF THEN Uncaught(s, o, call)
    ELSE LET method_name == strip(line)
             r == inspect_method(s, method_name)
         IN  IF r.status = "raised" THEN Propagated(s, o \o r.out, call)
             ELSE Again(s, o \o r.out, call)

(* The loop with choice 2 asking for a type name even when one is active *)
interactive_mode_always_asks(s, line0, line1, line2) ==
    IF line0 = EOF THEN Uncaught(s, <<>>, NoCall)
    ELSE LET choice == show_menu(line0) IN
    IF choice = <<"1">> THEN
        LET o == list_available_types(s) IN
        IF line1 = EOF THEN Uncaught(s, o, NoCall)
        ELSE LET type_name == strip(line1)
                 r == load_type(s, type_name)
             IN  IF r.ret
                 THEN Again(r.self, o \o r.out \o analyze_type(r.self), Call(type_name, r.ret))
                 ELSE Again(r.self, o \o r.out, Call(type_name, r.ret))
    ELSE IF choice = <<"2">> THEN
        IF TRUE THEN
            IF line1 = EOF THEN Uncaught(s, <<>>, NoCall)
            ELSE LET type_name == strip(line1)
                     r == load_type(s, type_name)
                 IN  IF ~r.ret
                     THEN Again(r.self, r.out, Call(type_name, r.ret))
                     ELSE Again(r.self, r.out \o show_examples(r.self), Call(type_name, r.ret))
        ELSE Again(s, show_examples(s), NoCall)
    ELSE IF choice = <<"3">> THEN
        IF Not(s.current_type) THEN
            IF line1 = EOF THEN Uncaught(s, <<>>, NoCall)
            ELSE LET type_name == strip(line1)
                     r == load_type(s, type_name)
                 IN  IF ~r.ret
                     THEN Again(r.self, r.out, Call(type_name, r.ret))
                     ELSE ask_method(r.self, r.out, Call(type_name, r.ret), line2)
        ELSE ask_method(s, <<>>, NoCall, line1)
    ELSE IF choice = <<"4">> THEN
        LET o == list_available_types(s) IN
        IF line1 = EOF \/ line2 = EOF THEN Uncaught(s, o, NoCall)
        ELSE LET type1 == strip(line1)
                 type2 == strip(line2)
             IN  Again(s, o \o compare_types(s, type1, type2), NoCall)
    ELSE IF choice = <<"5">> THEN
        Again(s, list_available_types(s), NoCall)
    ELSE IF choice = <<"6">> THEN
        Outcome(s, <<Ev("Thank you", <<>>)>>, "done", NoCall)
    ELSE
        Again(s, <<Ev("Invalid choice", <<>>)>>, NoCall)

interactive_mode(s, line0, line1, line2) ==
    IF line0 = EOF THEN Uncaught(s, <<>>, NoCall)
    ELSE LET choice == show_menu(line0) IN
    IF choice = <<"1">> THEN
        LET o == list_available_types(s) IN
        IF line1 = EOF THEN Uncaught(s, o, NoCall)
        ELSE LET type_name == strip(line1)
                 r == load_type(s, type_name)
             IN  IF r.ret
                 THEN Again(r.self, o \o r.out \o analyze_type(r.self), Call(type_name, r.ret))
                 ELSE Again(r.self, o \o r.out, Call(type_name, r.ret))
    ELSE IF choice = <<"2">> THEN
        IF Not(s.current_type) THEN
            IF line1 = EOF THEN Uncaught(s, <<>>, NoCall)
            ELSE LET type_name == strip(line1)
                     r == load_type(s, type_name)
                 IN  IF ~r.ret
                     THEN Again(r.self, r.out, Call(type_name, r.ret))
                     ELSE Again(r.self, r.out \o show_examples(r.self), Call(type_name, r.ret))
        ELSE Again(s, show_examples(s), NoCall)
    ELSE IF choice = <<"3">> THEN
        IF Not(s.current_type) THEN
            IF line1 = EOF THEN Uncaught(s, <<>>, NoCall)
            ELSE LET type_name == strip(line1)
                     r == load_type(s, type_name)
                 IN  IF ~r.ret
                     THEN Again(r.self, r.out, Call(type_name, r.ret))
                     ELSE ask_method(r.self, r.out, Call(type_name, r.ret), line2)
        ELSE ask_method(s, <<>>, NoCall, line1)
    ELSE IF choice = <<"4">> THEN
        LET o == list_available_types(s) IN
        IF line1 = EOF \/ line2 = EOF THEN Uncaught(s, o, NoCall)
        ELSE LET type1 == strip(line1)
                 type2 == strip(line2)
             IN  Again(s, o \o compare_types(s, type1, type2), NoCall)
    ELSE IF choice = <<"5">> THEN
        Again(s, list_available_types(s), NoCall)
    ELSE IF choice = <<"6">> THEN
        Outcome(s, <<Ev("Thank you", <<>>)>>, "done", NoCall)
    ELSE
        Again(s, <<Ev("Invalid choice", <<>>)>>, NoCall)

----------------------------------------------------------------------------
(* main.  argv1 is sys.argv[1], or None when len(sys.argv) <= 1.            *)

banner == <<Ev("PYTHON BUILT-IN DATA TYPES INSPECTOR", <<>>),
            Ev("Practical examples for each type", <<>>)>>

main(s, argv1) ==
    IF argv1 # None THEN
        LET type_name == argv1
            o == banner \o <<Ev("Loading type from command line", type_name)>>
            r == load_type(s, type_name)
        IN  IF r.ret
            THEN Again(r.self, o \o r.out \o analyze_type(r.self) \o show_examples(r.self),
                       Call(type_name, r.ret))
            ELSE Outcome(r.self, o \o r.out, "done", Call(type_name, r.ret))
    ELSE Again(s, banner, NoCall)

----------------------------------------------------------------------------
(* The program: main, then the menu loop, one step per line of choice read *)

TypeNames == DOMAIN init_builtin_types

m_hash == <<"_","_","h","a","s","h","_","_">>
m_upper == <<"u","p","p","e","r">>
m_count == <<"c","o","u","n","t">>
m_zzz == <<"z","z","z">>
t_foo == <<"f","o","o">>

(* Lines standard input may supply at a type-name prompt *)
TypeLines ==
    TypeNames \cup {<<" ">> \o t_int \o <<"\t">>, t_foo, <<>>, <<"S","t","r">>, EOF}

(* Lines standard input may supply at the two prompts of menu choice 4 *)
CompareLines ==
    {t_str, t_list, t_bytes, t_object, <<" ">> \o t_int \o <<"\t">>, t_foo, EOF}

(* Lines standard input may supply at the method-name prompt *)
MethodLines == {m_hash, m_count, m_upper \o <<"\f">>, m_zzz, t_str, EOF}

(* Lines standard input may supply at the menu prompt *)
ChoiceLines ==
    {<<"1">>, <<"2">>, <<"3">>, <<"4">>, <<"5">>, <<"6">>,
     <<" ","6","\t">>, <<"\f","6">>, <<" ","1">>, <<"7">>, <<"0">>, <<>>, <<"1","6">>, <<"6"," ","6">>, <<"x">>}

(* sys.argv[1], not stripped by the program *)
Args == TypeNames \cup {t_foo, <<" ">> \o t_str, <<>>}

(* categories and result hold <<value>> once the call has been made *)
Pending == <<>>

NoType == [dir |-> <<>>, callable |-> {}, attrs |-> DictOf(<<>>)]

Init ==
    /\ pc = "start"
    /\ choice_line = None
    /\ builtin_types = init_builtin_types
    /\ current_type = None
    /\ current_type_name = None
    /\ out = <<>>
    /\ load_call = NoCall
    /\ type_obj = NoType
    /\ categories = Pending
    /\ result = Pending

Apply(o, line) ==
    /\ pc' = o.pc
    /\ choice_line' = line
    /\ builtin_types' = o.self.builtin_types
    /\ current_type' = o.self.current_type
    /\ current_type_name' = o.self.current_type_name
    /\ out' = o.out
    /\ load_call' = o.load_call
    /\ UNCHANGED apiVars

MainWithArg ==
    /\ pc = "start"
    /\ \E a \in Args : Apply(main(Self, a), None)

MainNoArg ==
    /\ pc = "start"
    /\ Apply(main(Self, None), None)

MenuEOF ==
    /\ pc = "menu"
    /\ Apply(interactive_mode(Self, EOF, EOF, EOF), EOF)

Choice1 ==
    /\ pc = "menu"
    /\ \E c \in ChoiceLines, l1 \in TypeLines :
          /\ show_menu(c) = <<"1">>
          /\ Apply(interactive_mode(Self, c, l1, EOF), c)

Choice2 ==
    /\ pc = "menu"
    /\ \E c \in ChoiceLines, l1 \in TypeLines :
          /\ show_menu(c) = <<"2">>
          /\ Apply(interactive_mode(Self, c, l1, EOF), c)

Choice3 ==
    /\ pc = "menu"
    /\ \E c \in ChoiceLines :
          /\ show_menu(c) = <<"3">>
          /\ IF Not(current_type)
             THEN \E l1 \in TypeLines, l2 \in MethodLines :
                     Apply(interactive_mode(Self, c, l1, l2), c)
             ELSE \E l1 \in MethodLines :
                     Apply(interactive_mode(Self, c, l1, EOF), c)

Choice4 ==
    /\ pc = "menu"
    /\ \E c \in ChoiceLines, l1 \in CompareLines, l2 \in CompareLines :
          /\ show_menu(c) = <<"4">>
          /\ Apply(interactive_mode(Self, c, l1, l2), c)

Choice5 ==
    /\ pc = "menu"
    /\ \E c \in ChoiceLines :
          /\ show_menu(c) = <<"5">>
          /\ Apply(interactive_mode(Self, c, EOF, EOF), c)

Choice6 ==
    /\ pc = "menu"
    /\ \E c \in ChoiceLines :
          /\ show_menu(c) = <<"6">>
          /\ Apply(interactive_mode(Self, c, EOF, EOF), c)

InvalidChoice ==
    /\ pc = "menu"
    /\ \E c \in ChoiceLines :
          /\ show_menu(c) \notin {<<"1">>, <<"2">>, <<"3">>, <<"4">>, <<"5">>, <<"6">>}
          /\ Apply(interactive_mode(Self, c, EOF, EOF), c)

Next ==
    \/ MainWithArg
    \/ MainNoArg
    \/ MenuEOF
    \/ Choice1
    \/ Choice2
    \/ Choice3
    \/ Choice4
    \/ Choice5
    \/ Choice6
    \/ InvalidChoice

Spec == Init /\ [][Next]_vars

----------------------------------------------------------------------------
(* categorize_methods applied to an arbitrary type: any set of at most      *)
(* MaxMembers names of NamePool, any of them callable.                      *)

MaxMembers == 3

NamePool ==
    {<<"G","e","t","I","t","e","m">>,
     <<"_","_">>,
     <<"_","_","a","d","d","_","_">>,
     <<"_","_","i","n","i","t","_","_">>,
     <<"_","_","l","e","n","_","_">>,
     <<"_","_","r","a","d","d","_","_">>,
     <<"_","_","r","e","p","r","_","_">>,
     <<"_","p","r","i","v","a","t","e">>,
     <<"a","p","p","e","n","d">>,
     <<"c","o","p","y">>,
     <<"h","e","x">>,
     <<"i","s","a","l","p","h","a">>,
     <<"t","o","_","b","y","t","e","s">>}

InitCat ==
    /\ pc = "start"
    /\ choice_line = None
    /\ builtin_types = init_builtin_types
    /\ current_type = None
    /\ current_type_name = None
    /\ out = <<>>
    /\ load_call = NoCall
    /\ \E S \in SUBSET NamePool :
          /\ Cardinality(S) <= MaxMembers
          /\ \E C \in SUBSET S :
                type_obj = [dir |-> sorted_set(S), callable |-> C,
                            attrs |-> DictOf(<<>>)]
    /\ categories = Pending
    /\ result = Pending

Categorize ==
    /\ categories = Pending
    /\ categories' = <<categorize_methods(type_obj)>>
    /\ UNCHANGED <<mainVars, type_obj, result>>

NextCat == Categorize

SpecCat == InitCat /\ [][NextCat]_vars

----------------------------------------------------------------------------
(* get_method_signature and get_method_doc applied to a type object with    *)
(* one attribute m, for every outcome of inspect.signature and              *)
(* inspect.getdoc on it; inspect_method applied to the inspector as         *)
(* constructed or after a load_type.                                        *)

LongDocExtra == 1

m_m == <<"m">>

SigPool == {Raise, <<"(",")">>, <<"(","s","e","l","f",","," ","/",")">>}

DocPool ==
    {None, Raise, <<>>, <<"o","k">>,
     <<" ","a"," ","\n","b">>,
     [i \in 1..DocLimit |-> "x"],
     [i \in 1..(DocLimit + LongDocExtra) |-> "x"]}

InitDoc ==
    /\ pc = "start"
    /\ choice_line = None
    /\ builtin_types = init_builtin_types
    /\ current_type = None
    /\ current_type_name = None
    /\ out = <<>>
    /\ load_call = NoCall
    /\ \E sg \in SigPool, dc \in DocPool :
          type_obj = [dir |-> <<m_m>>, callable |-> {m_m},
                      attrs |-> DictOf(<< <<m_m, [sig |-> sg, doc |-> dc]>> >>)]
    /\ categories = Pending
    /\ result = Pending

Done(op, method_name, value) ==
    <<[op |-> op, method_name |-> method_name, status |-> "returned", value |-> value]>>

CallGetMethodSignature ==
    /\ result = Pending
    /\ \E method_name \in {m_m, m_zzz} :
          result' = Done("get_method_signature", method_name,
                             get_method_signature(type_obj, method_name))
    /\ UNCHANGED <<mainVars, type_obj, categories>>

CallGetMethodDoc ==
    /\ result = Pending
    /\ \E method_name \in {m_m, m_zzz} :
          result' = Done("get_method_doc", method_name,
                             get_method_doc(type_obj, method_name))
    /\ UNCHANGED <<mainVars, type_obj, categories>>

(* Type names given to load_type before inspect_method *)
DocTypes == {t_str, t_list, t_int}

(* Method names given to inspect_method *)
DocMethods == {m_hash, m_count, m_upper, m_zzz}

LoadType ==
    /\ result = Pending
    /\ current_type = None
    /\ \E type_name \in DocTypes :
          LET r == load_type(Self, type_name)
          IN  /\ builtin_types' = r.self.builtin_types
              /\ current_type' = r.self.current_type
              /\ current_type_name' = r.self.current_type_name
              /\ out' = r.out
              /\ load_call' = Call(type_name, r.ret)
    /\ UNCHANGED <<pc, choice_line, apiVars>>

CallInspectMethod ==
    /\ result = Pending
    /\ \E method_name \in DocMethods :
          LET r == inspect_method(Self, method_name)
          IN  result' = <<[op |-> "inspect_method", method_name |-> method_name,
                           status |-> r.status, value |-> r.out]>>
    /\ UNCHANGED <<mainVars, type_obj, categories>>

NextDoc ==
    \/ CallGetMethodSignature
    \/ CallGetMethodDoc
    \/ LoadType
    \/ CallInspectMethod

SpecDoc == InitDoc /\ [][NextDoc]_vars

----------------------------------------------------------------------------
(* Properties *)

HasEv(o, kind) == \E i \in DOMAIN o : o[i].ev = kind

(* C1: a load_type call with a name that is not a key of the registry       *)
(* returns False and leaves current_type and current_type_name as they were *)
(* before the step, whatever type was or was not loaded.                    *)
C1_UnknownNameFails ==
    [][(load_call'.called /\ load_call'.arg \notin DOMAIN builtin_types)
          => /\ load_call'.ret = FALSE
             /\ current_type' = current_type
             /\ current_type_name' = current_type_name]_vars

(* A failed load while a type is active: the type is still active *)
C1_Witness ==
    /\ load_call.called
    /\ load_call.arg \notin DOMAIN builtin_types
    /\ ~load_call.ret
    /\ current_type # None

(* C2: a load_type call with a key of the registry returns True and makes   *)
(* that name and its registry handle the active type.                       *)
C2_KnownNameLoads ==
    [][(load_call'.called /\ load_call'.arg \in DOMAIN builtin_types)
          => /\ load_call'.ret = TRUE
             /\ current_type_name' = load_call'.arg
             /\ current_type' = builtin_types[load_call'.arg]]_vars

(* A successful load made from menu choice 1 *)
C2_Witness ==
    /\ load_call.called
    /\ load_call.ret
    /\ load_call.arg = t_float
    /\ current_type = <<"<class 'float'>">>
    /\ HasEv(out, "list_available_types")

BucketNames ==
    {"constructors", "magic_methods", "query_methods", "mutation_methods",
     "conversion_methods", "operators", "other_methods"}

IsDunderName(n) ==
    /\ Len(n) >= 2
    /\ n[1] = "_" /\ n[2] = "_"
    /\ n[Len(n)] = "_" /\ n[Len(n) - 1] = "_"

Categorizable(t) ==
    {n \in Range(t.dir) : n \in t.callable /\ (IsDunderName(n) \/ (n = <<>> \/ n[1] # "_"))}

(* C3: the seven buckets of categorize_methods are pairwise disjoint, hold  *)
(* no name twice, and together hold exactly the callable members that are   *)
(* dunder names or do not start with an underscore.                         *)
C3_BucketsPartition ==
    categories # Pending =>
        LET cats == categories[1] IN
        /\ DOMAIN cats = BucketNames
        /\ \A a \in BucketNames, b \in BucketNames :
              a # b => Range(cats[a]) \cap Range(cats[b]) = {}
        /\ \A a \in BucketNames : Cardinality(Range(cats[a])) = Len(cats[a])
        /\ UNION {Range(cats[a]) : a \in BucketNames} = Categorizable(type_obj)

(* A type with a private callable, a non-callable and two bucketed names *)
C3_Witness ==
    /\ categories # Pending
    /\ <<"_","p","r","i","v","a","t","e">> \in type_obj.callable
    /\ Len(categories[1].operators) = 1
    /\ Len(categories[1].conversion_methods) = 1

(* C4: started with or without an argument, and whatever the argument, the  *)
(* program reaches the interactive menu.                                    *)
C4_MenuAlwaysReached ==
    [][pc = "start" => pc' = "menu"]_vars

NameErrors ==
    {"not_recognized_type", "Method not found", "One or both types not recognized"}

(* C5: a step that reports an unrecognized type name or method name ends at *)
(* the menu prompt.                                                         *)
C5_NameErrorsReturnToMenu ==
    [][(\E k \in NameErrors : HasEv(out', k)) => pc' = "menu"]_vars

Consistent ==
    \/ current_type = None /\ current_type_name = None
    \/ /\ current_type_name \in DOMAIN builtin_types
       /\ current_type = builtin_types[current_type_name]

(* C6: current_type and current_type_name are both None or the handle and   *)
(* the name of one registry entry, and once set they are never None again.  *)
C6_SlotNeverCleared ==
    /\ []Consistent
    /\ [][current_type # None => current_type' # None /\ current_type_name' # None]_vars

(* With a type active, a comparison of unknown names was refused *)
C6_Witness ==
    /\ current_type # None
    /\ HasEv(out, "One or both types not recognized")

SeventeenNames ==
    {t_str, t_int, t_float, t_complex, t_list, t_tuple, t_dict, t_set,
     t_frozenset, t_bool, t_bytes, t_bytearray, t_memoryview, t_range,
     t_slice, t_type, t_object}

(* C7: the registry has exactly the 17 keys and no step changes it *)
C7_RegistryFixed ==
    /\ [](DOMAIN builtin_types = SeventeenNames /\ Cardinality(DOMAIN builtin_types) = 17)
    /\ [][builtin_types' = builtin_types]_vars

(* After a failed load from the menu, with a type active *)
C7_Witness ==
    /\ pc = "menu"
    /\ load_call.called
    /\ load_call.arg = t_foo
    /\ current_type_name = t_list

Digits1to5 == {<<"1">>, <<"2">>, <<"3">>, <<"4">>, <<"5">>}

Last(o) == o[Len(o)]

(* C8: from the menu prompt, with a choice line read, the loop ends         *)
(* normally iff the stripped line is '6'; for '1'..'5' the step ends with   *)
(* the menu shown again unless standard input ran out at a later prompt;    *)
(* any other line prints the invalid-choice message and shows the menu.     *)
C8_ExitOnlyOnSix ==
    [][(pc = "menu" /\ choice_line' # EOF) =>
          LET choice == strip(choice_line') IN
          /\ (pc' = "done") <=> (choice = <<"6">>)
          /\ choice \in Digits1to5 =>
                /\ pc' \in {"menu", "EOFError"}
                /\ pc' = "menu" => Last(out') = menu_text[1]
                /\ ~HasEv(out', "Invalid choice")
          /\ choice \notin Digits1to5 \cup {<<"6">>} =>
                /\ pc' = "menu"
                /\ out' = <<Ev("Invalid choice", <<>>)>> \o menu_text]_vars

(* The loop was left through a choice line that is '6' once stripped *)
C8_Witness ==
    /\ pc = "done"
    /\ choice_line = <<" ","6","\t">>
    /\ current_type # None

SigFails(t, name) == name \notin DOMAIN t.attrs \/ t.attrs[name].sig = Raise

DocFails(t, name) == name \notin DOMAIN t.attrs \/ t.attrs[name].doc = Raise

(* The active type shows the attribute and inspect.signature raises on it *)
ActiveSigFails(name) ==
    /\ current_type # None
    /\ name \in DOMAIN builtin_reflect(current_type).attrs
    /\ builtin_reflect(current_type).attrs[name].sig = Raise

    /\ result[1].value[2] = Ev("Signature", placeholder_sig)
    /\ result[1].value[3].ev = "Documentation"

(* C10: show_examples never falls back to the no-examples message: every    *)
(* type of the registry has its block in the table.                         *)
C10_EveryTypeHasExamples ==
    ~HasEv(out, "No examples available for")

(* Binary operator methods that have a reflected form: those of the        *)
(* operator display table, and __divmod__ and __matmul__ besides.           *)
ReflectableNames ==
    DOMAIN operator_map
    \cup {<<"_","_","d","i","v","m","o","d","_","_">>,
          <<"_","_","m","a","t","m","u","l","_","_">>}

(* __rX__ for a reflectable __X__ *)
IsReflectedOperator(n) ==
    \E b \in ReflectableNames : n = <<"_","_","r">> \o SubSeq(b, 3, Len(b))

(* C11: a name is in the operators bucket only if it is a key of the        *)
(* operator display table or the reflected form of an operator method, and  *)
(* every other callable dunder name that is not a constructor is in         *)
(* magic_methods.                                                           *)
C11_OperatorsOnlyOperators ==
    categories # Pending =>
        LET cats == categories[1] IN
        /\ \A n \in Range(cats.operators) :
              n \in DOMAIN operator_map \/ IsReflectedOperator(n)
        /\ \A n \in Range(type_obj.dir) :
              (/\ n \in type_obj.callable
               /\ IsDunderName(n)
               /\ n \notin constructor_names
               /\ n \notin DOMAIN operator_map
               /\ ~IsReflectedOperator(n))
                  => n \in Range(cats.magic_methods)

ActiveType == <<current_type, current_type_name>>

(* C12: in the menu loop the active type changes only in a step whose       *)
(* load_type call succeeded; choices 4 and 5, an invalid choice, and        *)
(* choices 2 and 3 with a type already active call no load_type and leave   *)
(* it unchanged; once a type is active only choice 1 with a registry key    *)
(* changes it.                                                              *)
C12_OnlyLoadChangesActiveType ==
    [][pc = "menu" =>
          LET choice == IF choice_line' = EOF THEN EOF ELSE strip(choice_line') IN
          /\ ActiveType' # ActiveType => load_call'.called /\ load_call'.ret
          /\ choice \notin {<<"1">>, <<"2">>, <<"3">>} =>
                ActiveType' = ActiveType /\ ~load_call'.called
          /\ (choice \in {<<"2">>, <<"3">>} /\ current_type # None) =>
                ActiveType' = ActiveType /\ ~load_call'.called
          /\ (current_type # None /\ ActiveType' # ActiveType) =>
                choice = <<"1">> /\ load_call'.arg \in DOMAIN builtin_types]_vars

(* Choice 3 taken with a type active: the line read was the method name *)
C12_Witness ==
    /\ pc = "menu"
    /\ choice_line = <<"3">>
    /\ ~load_call.called
    /\ current_type = <<"<class 'list'>">>
    /\ HasEv(out, "METHOD INSPECTION")

====
